---------------------------- MODULE Spec2Model ----------------------------
(***************************************************************************)
(* KosmoKorn: the deterministic planet generator (PlanetGenerator), the    *)
(* usePlanetEvolution hook that drives it, and the biome selection of the  *)
(* 2D and 3D renderers.                                                    *)
(*                                                                         *)
(* Numbers.  A draw of a seedrandom stream is an integer v in              *)
(* 0..RngRange-1 standing for the float v/RngRange in [0,1).  Quantities   *)
(* of the [0,1] scale (atmosphere, water, life, resources, progress,      *)
(* satellite sizes) are integers in units of 1/One; temperature is in      *)
(* units of 1/1000 K; the radius is in units of 1/RadiusDen; event impacts *)
(* are in units of 1/ImpactDen.  All formulas are the exact rational       *)
(* values of the source's expressions in those units.                      *)
(*                                                                         *)
(* Strings that are used to seed a stream are sequences of character      *)
(* codes, so that a template literal is a concatenation and two keys are  *)
(* the same stream exactly when they are the same string.                  *)
(***************************************************************************)
EXTENDS Integers, Sequences, FiniteSets, TLC

VARIABLES
    rngParam,     \* which member of the seedrandom stand-in family is in use
    seed,         \* usePlanetEvolution's seed prop (userData.seed)
    currentDay,   \* usePlanetEvolution's currentDay prop (userData.currentDay)
    genRng,       \* generator.rng: state of the memoized PlanetGenerator's own stream
    calls,        \* number of generatePlanetData calls made on the memoized generator
    planetData,   \* usePlanetEvolution's planetData state
    prevData,     \* the value planetData held before the last setPlanetData
    facetStream,  \* for the last generation/render: facet -> key of the stream it drew from
    idx2D,        \* biome index Planet2D resolved at its last render
    idx3D,        \* biome index LittlePlanetScene resolved at its last render
    targetDay,    \* DevTools' targetDay state
    previewData,  \* DevTools' previewData state
    prevPreview,  \* the value previewData held before the last setPreviewData
    stored,       \* localStorage: the item under STORAGE_KEY (NoItem when absent)
    lastSaved,    \* the record handed to the last StorageService.save that returned true
    loaded,       \* what StorageService.load returned since the last write (NotLoaded before)
    noiseSeed,    \* the permutation table createNoise3D() built when the module was loaded
    globe,        \* arguments and result of the last createGlobe call
    prevGlobe,    \* arguments and result of the createGlobe call before it
    placed,       \* inputs and result of the last computation of trees and rocks
    prevPlaced,   \* inputs and result of the computation before it
    worldRng,     \* LittlePlanetScene's memoized worldRng stream (NoIndex before the mount)
    sceneRender,  \* inputs and results of the last recomputation of the scene's memos
    prevSceneRender, \* inputs and results of the recomputation before it
    clock,        \* the time new Date() returns, in hours
    lastVisit,    \* useDailyCheck's lastVisit state (NoIndex for null)
    lastCheck,    \* inputs and result of the last checkNewDay call
    pending,      \* usePlanetEvolution: the generations whose timer has not fired, oldest first
    isLoading,    \* usePlanetEvolution's isLoading state
    lastDone      \* the generation whose timer fired last, and whether it set planetData

hookVars == <<seed, currentDay, genRng, calls, planetData, prevData, facetStream, idx2D, idx3D>>
devVars == <<targetDay, previewData, prevPreview>>
storeVars == <<stored, lastSaved, loaded>>
sceneVars == <<noiseSeed, globe, prevGlobe, placed, prevPlaced>>

renderVars == <<worldRng, sceneRender, prevSceneRender>>
visitVars == <<clock, lastVisit, lastCheck>>
asyncVars == <<pending, isLoading, lastDone>>

vars == <<rngParam, hookVars, devVars, storeVars, sceneVars, renderVars, visitVars, asyncVars>>

---------------------------------------------------------------------------
(* Bounds *)

MaxDay == 64
MaxCalls == 2
MaxDaysPassed == 2
MaxParam == 1
MaxTyped == 3
MaxNoiseSeed == 1
MathRandomDen == 2

(* Units *)

RngRange == 64
One == 16800000
RadiusDen == 6400
ImpactDen == 6400

Null == "null"           \* null for a string (stage)
NullData == [null |-> TRUE]   \* null for a snapshot or any other object
NoKey == <<>>            \* no stream
NoIndex == 0 - 1         \* no index resolved yet
NoItem == <<>>           \* localStorage.getItem returns null
NotLoaded == [notLoaded |-> TRUE]   \* StorageService.load has not been called

\* the float NaN; no arithmetic is applied to it
NaN == 0 - 999999999

Min(a, b) == IF a <= b THEN a ELSE b
Max(a, b) == IF a >= b THEN a ELSE b

---------------------------------------------------------------------------
(* Strings as character codes *)

\* "Terra-1000" and "Io-7": seeds of the form `${planetName}-${Date.now()}`
SeedTerra == <<84, 101, 114, 114, 97, 45, 49, 48, 48, 48>>
SeedIo == <<73, 111, 45, 55>>
Seeds == {SeedTerra, SeedIo}

Dash == <<45>>
EventsTag == <<45, 101, 118, 101, 110, 116, 115, 45>>   \* "-events-"
WorldTag == <<45, 119, 111, 114, 108, 100>>             \* "-world"
EventIdTag == <<101, 118, 101, 110, 116, 45>>           \* "event-"
SatelliteIdTag == <<115, 97, 116, 101, 108, 108, 105, 116, 101, 45>>  \* "satellite-"
LifeformIdTag == <<108, 105, 102, 101, 102, 111, 114, 109, 45>>       \* "lifeform-"

\* decimal digits of a natural number, as in `${n}`
RECURSIVE Digits(_)
Digits(n) == IF n < 10 THEN <<48 + n>> ELSE Digits(n \div 10) \o <<48 + (n % 10)>>

\* `${n}` for an integer
NumStr(n) == IF n < 0 THEN Dash \o Digits(0 - n) ELSE Digits(n)

---------------------------------------------------------------------------
(* seedrandom: a stream is created from a string and advanced by each draw. *)
(* The library is external; it is modelled by a family of 16-bit            *)
(* congruential generators (selected by rngParam) whose state is derived    *)
(* from every character of the seed string.                                 *)

RngModulus == 65536

\* 31^k mod RngModulus for k = 0..40
Pow31 ==
  <<1, 31, 961, 29791, 6017, 55455, 15169, 11487, 28417, 28959,
    45761, 42335, 1665, 51615, 27201, 56799, 56833, 57887, 25025, 54879,
    62849, 47775, 39233, 36575, 19713, 21279, 4289, 1887, 58497, 43935,
    51265, 16351, 48129, 50207, 49089, 14431, 54145, 40095, 63297, 61663,
    11009>>

\* the sum over i in lo..hi of (key[i] + 7 rngParam) * 31^(Len(key) - i), mod RngModulus
RECURSIVE KeyMix(_, _, _)
KeyMix(key, lo, hi) ==
    IF lo > hi THEN 0
    ELSE IF lo = hi
    THEN ((key[lo] + 7 * rngParam) * Pow31[Len(key) - lo + 1]) % RngModulus
    ELSE (KeyMix(key, lo, (lo + hi) \div 2) + KeyMix(key, (lo + hi) \div 2 + 1, hi))
            % RngModulus

\* seedrandom(key): the state of a new stream
SeedRandom(key) == (5381 * Pow31[Len(key) + 1] + KeyMix(key, 1, Len(key))) % RngModulus

RngStep(x) == (x * 25173 + 13849) % RngModulus
RngOut(x) == x \div (RngModulus \div RngRange)

\* rng(): the value drawn and the stream after the draw
Draw(rng) == [v |-> RngOut(RngStep(rng)), rng |-> RngStep(rng)]

\* Math.floor(rng() * n) for a drawn v
Pick(v, n) == (v * n) \div RngRange

---------------------------------------------------------------------------
(* constants/index.ts *)

Stages == <<"seed", "core", "atmosphere", "surface", "life", "mature">>

StageIndex(stage) == CHOOSE i \in 1..Len(Stages) : Stages[i] = stage

STAGE_REQUIREMENTS ==
    [s \in {"seed", "core", "atmosphere", "surface", "life", "mature"} |->
        CASE s = "seed" -> [minDays |-> 1]
          [] s = "core" -> [minDays |-> 3, minTemperature |-> 200]
          [] s = "atmosphere" ->
                [minDays |-> 7, minTemperature |-> 250, minAtmosphere |-> (One \div 10) * 2]
          [] s = "surface" ->
                [minDays |-> 14, minTemperature |-> 200, maxTemperature |-> 400,
                 minAtmosphere |-> (One \div 10) * 4, minWater |-> One \div 10]
          [] s = "life" ->
                [minDays |-> 30, minTemperature |-> 250, maxTemperature |-> 350,
                 minAtmosphere |-> (One \div 10) * 6, minWater |-> (One \div 10) * 3,
                 minLife |-> One \div 10]
          [] s = "mature" ->
                [minDays |-> 60, minTemperature |-> 280, maxTemperature |-> 320,
                 minAtmosphere |-> (One \div 10) * 8, minWater |-> (One \div 10) * 5,
                 minLife |-> (One \div 10) * 5]]

STAGE_COLORS ==
    [s \in {"seed", "core", "atmosphere", "surface", "life", "mature"} |->
        CASE s = "seed" -> "#9CA3AF"
          [] s = "core" -> "#F87171"
          [] s = "atmosphere" -> "#FBBF24"
          [] s = "surface" -> "#34D399"
          [] s = "life" -> "#60A5FA"
          [] s = "mature" -> "#A78BFA"]

\* STAGE_SIZES in tenths
STAGE_SIZES ==
    [s \in {"seed", "core", "atmosphere", "surface", "life", "mature"} |->
        CASE s = "seed" -> 1
          [] s = "core" -> 3
          [] s = "atmosphere" -> 5
          [] s = "surface" -> 7
          [] s = "life" -> 9
          [] s = "mature" -> 10]

\* PLANET_GENERATOR_CONFIG
BaseTemperature == 273000
TemperatureVariation == 200000
\* rng() < 0.3, rng() < 0.1, rng() < 0.25 on the draw v
WaterGate(v) == v * 10 < 3 * RngRange
LifeGate(v) == v * 10 < RngRange
SatelliteGate(v) == v * 4 < RngRange

\* EVENT_PROBABILITIES in hundredths
EVENT_PROBABILITIES == [early |-> 10, middle |-> 15, late |-> 20]

EventTypes == <<"comet", "solar_flare", "tectonic", "volcanic", "meteor", "asteroid", "aurora">>

EventTypeCodes ==
    [t \in {"comet", "solar_flare", "tectonic", "volcanic", "meteor", "asteroid", "aurora"} |->
        CASE t = "comet" -> <<99, 111, 109, 101, 116>>
          [] t = "solar_flare" -> <<115, 111, 108, 97, 114, 95, 102, 108, 97, 114, 101>>
          [] t = "tectonic" -> <<116, 101, 99, 116, 111, 110, 105, 99>>
          [] t = "volcanic" -> <<118, 111, 108, 99, 97, 110, 105, 99>>
          [] t = "meteor" -> <<109, 101, 116, 101, 111, 114>>
          [] t = "asteroid" -> <<97, 115, 116, 101, 114, 111, 105, 100>>
          [] t = "aurora" -> <<97, 117, 114, 111, 114, 97>>]

\* every EVENT_NAMES pool has four titles
EventNamesLen == 4

LifeformTypes == <<"microorganism", "plant", "animal", "intelligent", "advanced">>

---------------------------------------------------------------------------
(* services/planetGenerator.ts *)

\* Math.sin(day * 0.1) * 50 in 1/1000, for day 1..72
SinTable ==
  <<4992, 9933, 14776, 19471, 23971, 28232, 32211, 35868, 39166, 42074, 44560, 46602,
    48178, 49272, 49875, 49979, 49583, 48692, 47315, 45465, 43160, 40425, 37285, 33773,
    29924, 25775, 21369, 16749, 11962, 7056, 2079, -2919, -7887, -12777, -17539, -22126,
    -26492, -30593, -34388, -37840, -40914, -43579, -45808, -47580, -48877, -49685, -49996, -49808,
    -49123, -47946, -46291, -44173, -41613, -38638, -35277, -31563, -27534, -23230, -18694, -13971,
    -9108, -4154, 841, 5827, 10756, 15577, 20242, 24706, 28922, 32849, 36448, 39683>>

TimeEffect(day) ==
    IF day = 0 THEN 0 ELSE IF day < 0 THEN 0 - SinTable[0 - day] ELSE SinTable[day]

\* Math.floor(Math.sqrt(n))
ISqrt(n) == CHOOSE r \in 0..n : r * r <= n /\ (r + 1) * (r + 1) > n

calculateStageStrict(day) ==
    LET Try[i \in 0..Len(Stages)] ==
            IF i = 0 THEN "seed"
            ELSE IF day > STAGE_REQUIREMENTS[Stages[i]].minDays THEN Stages[i]
            ELSE Try[i - 1]
    IN  Try[Len(Stages)]

calculateStageMutant(day) ==
    LET Try[i \in 0..Len(Stages)] ==
            IF i = 0 THEN "seed"
            ELSE IF day <= STAGE_REQUIREMENTS[Stages[i]].minDays THEN Stages[i]
            ELSE Try[i - 1]
    IN  Try[Len(Stages)]

\* the loop runs from the most advanced stage down
calculateStage(day) ==
    LET Try[i \in 0..Len(Stages)] ==
            IF i = 0 THEN "seed"
            ELSE IF day >= STAGE_REQUIREMENTS[Stages[i]].minDays THEN Stages[i]
            ELSE Try[i - 1]
    IN  Try[Len(Stages)]

getNextStage(currentStage) ==
    IF StageIndex(currentStage) < Len(Stages)
    THEN Stages[StageIndex(currentStage) + 1]
    ELSE Null

\* draws from this.rng, the generator's own stream; value in 1/RadiusDen
calculateRadius(stage, rng) ==
    LET d == Draw(rng)
    IN  [v |-> Max(RadiusDen \div 10, STAGE_SIZES[stage] * (9 * RngRange + 2 * d.v)),
         rng |-> d.rng]

ColorVariations(stage) ==
    <<STAGE_COLORS[stage]>> \o
    CASE stage = "seed" -> <<"#4B5563", "#6B7280", "#9CA3AF">>
      [] stage = "core" -> <<"#DC2626", "#EF4444", "#F87171">>
      [] stage = "atmosphere" -> <<"#F59E0B", "#FBBF24", "#FCD34D">>
      [] stage = "surface" -> <<"#059669", "#10B981", "#34D399">>
      [] stage = "life" -> <<"#3B82F6", "#60A5FA", "#93C5FD">>
      [] stage = "mature" -> <<"#8B5CF6", "#A78BFA", "#C4B5FD">>

calculateColor(stage, rng) ==
    LET d == Draw(rng)
        variations == ColorVariations(stage)
    IN  [v |-> variations[Pick(d.v, Len(variations)) + 1], rng |-> d.rng]

\* in 1/1000 K
calculateTemperature(day, rng) ==
    LET d == Draw(rng)
        randomEffect == d.v * (TemperatureVariation \div RngRange) - TemperatureVariation \div 2
    IN  [v |-> Max(50000, BaseTemperature + TimeEffect(day) + randomEffect), rng |-> d.rng]

BaseAtmosphere(stage) ==
    CASE stage \in {"seed", "core"} -> 0
      [] stage = "atmosphere" -> (One \div 10) * 3
      [] stage = "surface" -> (One \div 10) * 6
      [] stage = "life" -> (One \div 10) * 8
      [] stage = "mature" -> One

calculateAtmosphereMutant(day, stage, rng) ==
    LET d == Draw(rng)
        dayEffect == Min(day * (One \div 100), One \div 2)
        randomEffect == d.v * (One \div (5 * RngRange))
    IN  [v |-> BaseAtmosphere(stage) + dayEffect + randomEffect, rng |-> d.rng]

calculateAtmosphere(day, stage, rng) ==
    LET d == Draw(rng)
        dayEffect == Min(day * (One \div 100), One \div 2)
        randomEffect == d.v * (One \div (5 * RngRange))
    IN  [v |-> Min(One, Max(0, BaseAtmosphere(stage) + dayEffect + randomEffect)),
         rng |-> d.rng]

BaseWaterMutant(stage) ==
    CASE stage = "atmosphere" -> One \div 10
      [] stage = "surface" -> (One \div 10) * 4
      [] stage = "life" -> (One \div 10) * 7
      [] stage = "mature" -> (One \div 10) * 3
      [] OTHER -> 0

BaseWater(stage) ==
    CASE stage = "atmosphere" -> One \div 10
      [] stage = "surface" -> (One \div 10) * 4
      [] stage = "life" -> (One \div 10) * 7
      [] stage = "mature" -> (One \div 10) * 8
      [] OTHER -> 0

calculateWaterMutant(day, stage, rng) ==
    LET gate == Draw(rng)
        d == Draw(gate.rng)
        dayEffect == Min(day * (One \div 200), (One \div 10) * 3)
        randomEffect == d.v * ((3 * One) \div (10 * RngRange))
    IN  IF ~WaterGate(gate.v) THEN [v |-> 0, rng |-> gate.rng]
        ELSE [v |-> Min(One, BaseWater(stage) + dayEffect + randomEffect), rng |-> d.rng]

calculateWater(day, stage, rng) ==
    LET gate == Draw(rng)
        d == Draw(gate.rng)
        dayEffect == Min(day * (One \div 200), (One \div 10) * 3)
        randomEffect == d.v * ((3 * One) \div (10 * RngRange))
    IN  IF stage = "seed" \/ stage = "core" THEN [v |-> 0, rng |-> rng]
        ELSE IF ~WaterGate(gate.v) THEN [v |-> 0, rng |-> gate.rng]
        ELSE [v |-> Min(One, BaseWater(stage) + dayEffect + randomEffect), rng |-> d.rng]

calculateLifeMutant(day, stage, rng) ==
    LET gate == Draw(rng)
        d == Draw(gate.rng)
        baseLife == IF stage = "life" THEN (One \div 10) * 3 ELSE (One \div 10) * 8
        dayEffect == Min((day - 30) * (One \div 100), One \div 2)
        randomEffect == d.v * (One \div (5 * RngRange))
    IN  IF ~LifeGate(gate.v) THEN [v |-> 0, rng |-> gate.rng]
        ELSE [v |-> Min(One, Max(0, baseLife + dayEffect + randomEffect)), rng |-> d.rng]

calculateLife(day, stage, rng) ==
    LET gate == Draw(rng)
        d == Draw(gate.rng)
        baseLife == IF stage = "life" THEN (One \div 10) * 3 ELSE (One \div 10) * 8
        dayEffect == Min((day - 30) * (One \div 100), One \div 2)
        randomEffect == d.v * (One \div (5 * RngRange))
    IN  IF stage # "life" /\ stage # "mature" THEN [v |-> 0, rng |-> rng]
        ELSE IF ~LifeGate(gate.v) THEN [v |-> 0, rng |-> gate.rng]
        ELSE [v |-> Min(One, Max(0, baseLife + dayEffect + randomEffect)), rng |-> d.rng]

calculateMinerals(day, rng) ==
    LET d == Draw(rng)
    IN  [v |-> Min(One, day * (One \div 100) + d.v * ((3 * One) \div (10 * RngRange))),
         rng |-> d.rng]

\* (temperature - 200) / 200 on the [0,1] scale: One * (t - 200000) / 200000
calculateEnergy(day, temperature, rng) ==
    LET d == Draw(rng)
        tempFactor == Max(0, (temperature - 200000) * (One \div 200000))
    IN  [v |-> Min(One, tempFactor + day * (One \div 200) + d.v * (One \div (5 * RngRange))),
         rng |-> d.rng]

calculateEvolutionPointsMutant(day) == day * 10 + ISqrt(5 * day)

\* Math.floor(day * 10 + Math.sqrt(day) * 5) = 10 day + floor(sqrt(25 day));
\* Math.sqrt of a negative number is NaN, and so is the result
calculateEvolutionPoints(day) == IF day < 0 THEN NaN ELSE day * 10 + ISqrt(25 * day)

\* min(1, day / minDays) on the [0,1] scale
calculateStageProgress(day, stage) ==
    IF getNextStage(stage) = Null THEN One
    ELSE Min(One, (day * One) \div STAGE_REQUIREMENTS[getNextStage(stage)].minDays)

\* "moon" below 0.7, "ring" below 0.9, else "debris"
generateSatelliteType(rng) ==
    LET d == Draw(rng)
    IN  [v |-> IF d.v * 10 < 7 * RngRange THEN "moon"
               ELSE IF d.v * 10 < 9 * RngRange THEN "ring" ELSE "debris",
         rng |-> d.rng]

SatelliteColors == <<"#9CA3AF", "#6B7280", "#4B5563", "#D1D5DB", "#F3F4F6">>

SatelliteSlotMutant(day, i, rng) ==
    LET gate == Draw(rng)
        name == Draw(gate.rng)
        size == Draw(name.rng)
        distance == Draw(size.rng)
        color == Draw(distance.rng)
        orbitSpeed == Draw(color.rng)
        type == generateSatelliteType(orbitSpeed.rng)
    IN  IF SatelliteGate(gate.v)
        THEN [v |-> [id |-> SatelliteIdTag \o NumStr(i),
                     name |-> <<i, Pick(name.v, 4)>>,
                     size |-> One \div 10 + size.v * ((3 * One) \div (10 * RngRange)),
                     distance |-> 2 * One + i * ((3 * One) \div 2)
                                  + distance.v * (One \div (2 * RngRange)),
                     color |-> SatelliteColors[Pick(color.v, Len(SatelliteColors)) + 1],
                     orbitSpeed |-> One + orbitSpeed.v * ((2 * One) \div RngRange),
                     type |-> type.v],
              rng |-> type.rng]
        ELSE [v |-> NullData, rng |-> gate.rng]

\* one iteration of the loop of generateSatellites: the satellite of slot i
\* (NullData when the slot is not filled) and the stream afterwards.  The name is
\* the index into the slot's pool of four names.
SatelliteSlot(day, i, rng) ==
    LET gate == Draw(rng)
        name == Draw(gate.rng)
        size == Draw(name.rng)
        distance == Draw(size.rng)
        color == Draw(distance.rng)
        orbitSpeed == Draw(color.rng)
        type == generateSatelliteType(orbitSpeed.rng)
    IN  IF SatelliteGate(gate.v) /\ day > i * 10
        THEN [v |-> [id |-> SatelliteIdTag \o NumStr(i),
                     name |-> <<i, Pick(name.v, 4)>>,
                     size |-> One \div 10 + size.v * ((3 * One) \div (10 * RngRange)),
                     distance |-> 2 * One + i * ((3 * One) \div 2)
                                  + distance.v * (One \div (2 * RngRange)),
                     color |-> SatelliteColors[Pick(color.v, Len(SatelliteColors)) + 1],
                     orbitSpeed |-> One + orbitSpeed.v * ((2 * One) \div RngRange),
                     type |-> type.v],
              rng |-> type.rng]
        ELSE [v |-> NullData, rng |-> gate.rng]

generateSatellites(day, rng) ==
    LET Loop[i \in 0..3] ==
            IF i = 0 THEN [v |-> <<>>, rng |-> rng]
            ELSE LET prev == Loop[i - 1]
                     slot == SatelliteSlot(day, i - 1, prev.rng)
                 IN  [v |-> IF slot.v = NullData THEN prev.v ELSE Append(prev.v, slot.v),
                      rng |-> slot.rng]
    IN  Loop[3]

\* impact deltas in 1/ImpactDen; the fields present depend on the type
generateEventImpact(type, rng) ==
    LET a == Draw(rng)
        b == Draw(a.rng)
        c == ImpactDen \div RngRange
    IN  CASE type = "comet" ->
               [v |-> [water |-> (a.v * c * 2) \div 10 - ImpactDen \div 10,
                       life |-> (b.v * c) \div 10 - ImpactDen \div 20],
                rng |-> b.rng]
          [] type = "solar_flare" ->
               [v |-> [temperature |-> a.v * c * 100 - 30 * ImpactDen,
                       atmosphere |-> (b.v * c) \div 10 - (7 * ImpactDen) \div 100],
                rng |-> b.rng]
          [] type = "tectonic" -> [v |-> [radius |-> (a.v * c) \div 20], rng |-> a.rng]
          [] type = "volcanic" ->
               [v |-> [temperature |-> a.v * c * 50, atmosphere |-> (b.v * c) \div 10],
                rng |-> b.rng]
          [] type = "meteor" ->
               [v |-> [radius |-> (a.v * c * 2) \div 100 - ImpactDen \div 100], rng |-> a.rng]
          [] type = "asteroid" -> [v |-> [radius |-> (a.v * c) \div 100], rng |-> a.rng]
          [] type = "aurora" -> [v |-> [life |-> (a.v * c) \div 20], rng |-> a.rng]

generateEventMutant(day, rng) ==
    LET t == Draw(rng)
        type == EventTypes[Pick(t.v, Len(EventTypes)) + 1]
        title == Draw(t.rng)
        description == Draw(title.rng)
        impact == generateEventImpact(type, description.rng)
        duration == Draw(impact.rng)
        probability == Draw(duration.rng)
    IN  [id |-> EventIdTag \o EventTypeCodes[type],
         type |-> type,
         title |-> Pick(title.v, EventNamesLen),
         description |-> Pick(description.v, 3),
         day |-> day,
         impact |-> impact.v,
         duration |-> Pick(duration.v, 3) + 1,
         probability |-> probability.v]

\* title and description are the indices into the pools of the type
generateEvent(day, rng) ==
    LET t == Draw(rng)
        type == EventTypes[Pick(t.v, Len(EventTypes)) + 1]
        title == Draw(t.rng)
        description == Draw(title.rng)
        impact == generateEventImpact(type, description.rng)
        duration == Draw(impact.rng)
        probability == Draw(duration.rng)
    IN  [id |-> EventIdTag \o NumStr(day) \o Dash \o EventTypeCodes[type],
         type |-> type,
         title |-> Pick(title.v, EventNamesLen),
         description |-> Pick(description.v, 3),
         day |-> day,
         impact |-> impact.v,
         duration |-> Pick(duration.v, 3) + 1,
         probability |-> probability.v]

EventProbabilityMutant(day) == EVENT_PROBABILITIES.early

EventProbability(day) ==
    IF day > 30 THEN EVENT_PROBABILITIES.late
    ELSE IF day > 7 THEN EVENT_PROBABILITIES.middle
    ELSE EVENT_PROBABILITIES.early

\* the stream of one iteration of the loop of generateEventsHistory
EventsKey(s, day) == s \o EventsTag \o NumStr(day)

EventsDayMutant(s, day, maxDay) ==
    LET roll == Draw(SeedRandom(EventsKey(s, maxDay)))
    IN  IF roll.v * 100 < EventProbability(day) * RngRange
        THEN <<generateEvent(day, roll.rng)>>
        ELSE <<>>

\* one iteration of the loop of generateEventsHistory: the events pushed for day
EventsDay(s, day, maxDay) ==
    LET roll == Draw(SeedRandom(EventsKey(s, day)))
    IN  IF roll.v * 100 < EventProbability(day) * RngRange
        THEN <<generateEvent(day, roll.rng)>>
        ELSE <<>>

\* the events pushed by the iterations from..to of the loop, in that order
RECURSIVE EventsLoop(_, _, _, _)
EventsLoop(s, from, to, maxDay) ==
    IF from > to THEN <<>>
    ELSE IF from = to THEN EventsDay(s, from, maxDay)
    ELSE EventsLoop(s, from, (from + to) \div 2, maxDay)
            \o EventsLoop(s, (from + to) \div 2 + 1, to, maxDay)

generateEventsHistory(s, maxDay) == EventsLoop(s, 1, maxDay, maxDay)

\* name and description are the indices into the pools of the type
LifeformNamesLen(type) ==
    CASE type = "microorganism" -> 3
      [] type = "plant" -> 4
      [] type = "animal" -> 4
      [] type = "intelligent" -> 3
      [] type = "advanced" -> 2

generateLifeformMutant(day, index, rng) ==
    LET type == LifeformTypes[Min(index, Len(LifeformTypes) - 1) + 1]
        name == Draw(rng)
        population == Draw(name.rng)
        dayAppeared == Draw(population.rng)
        description == Draw(dayAppeared.rng)
    IN  [v |-> [id |-> LifeformIdTag \o NumStr(index),
                type |-> type,
                name |-> Pick(name.v, LifeformNamesLen(type)),
                population |-> Pick(population.v, 1000000) + 1000,
                complexity |-> Min(index, 5),
                dayAppeared |-> Max(1, day - Pick(dayAppeared.v, 20)),
                description |-> Pick(description.v, 3)],
         rng |-> description.rng]

generateLifeform(day, index, rng) ==
    LET type == LifeformTypes[Min(index, Len(LifeformTypes) - 1) + 1]
        name == Draw(rng)
        population == Draw(name.rng)
        dayAppeared == Draw(population.rng)
        description == Draw(dayAppeared.rng)
    IN  [v |-> [id |-> LifeformIdTag \o NumStr(index),
                type |-> type,
                name |-> Pick(name.v, LifeformNamesLen(type)),
                population |-> Pick(population.v, 1000000) + 1000,
                complexity |-> Min(index + 1, 5),
                dayAppeared |-> Max(1, day - Pick(dayAppeared.v, 20)),
                description |-> Pick(description.v, 3)],
         rng |-> description.rng]

generateLifeforms(day, lifeLevel, rng) ==
    LET maxLifeforms == Min(5, (lifeLevel * 10) \div One)
        Loop[i \in 0..5] ==
            IF i = 0 THEN [v |-> <<>>, rng |-> rng]
            ELSE LET prev == Loop[i - 1]
                     gate == Draw(prev.rng)
                     lf == generateLifeform(day, i - 1, gate.rng)
                 IN  IF gate.v * 10 < 6 * RngRange
                     THEN [v |-> Append(prev.v, lf.v), rng |-> lf.rng]
                     ELSE [v |-> prev.v, rng |-> gate.rng]
    IN  IF lifeLevel = 0 THEN [v |-> <<>>, rng |-> rng] ELSE Loop[maxLifeforms]

\* the per-day stream of generatePlanetData
DayKey(s, day) == s \o Dash \o NumStr(day)

\* generatePlanetData on a generator with seed s whose own stream is in state rng:
\* the snapshot and the generator's stream afterwards
generatePlanetData(s, rng, day) ==
    LET dayRng == SeedRandom(DayKey(s, day))
        stage == calculateStage(day)
        baseRadius == calculateRadius(stage, rng)
        color == calculateColor(stage, dayRng)
        temperature == calculateTemperature(day, color.rng)
        atmosphere == calculateAtmosphere(day, stage, temperature.rng)
        water == calculateWater(day, stage, atmosphere.rng)
        life == calculateLife(day, stage, water.rng)
        satellites == generateSatellites(day, life.rng)
        lifeforms == generateLifeforms(day, life.v, satellites.rng)
        minerals == calculateMinerals(day, lifeforms.rng)
        energy == calculateEnergy(day, temperature.v, minerals.rng)
        nextStage == getNextStage(stage)
    IN  [data |->
            [seed |-> s,
             currentDay |-> day,
             stage |-> stage,
             color |-> color.v,
             radius |-> baseRadius.v,
             temperature |-> temperature.v,
             atmosphere |-> atmosphere.v,
             water |-> water.v,
             life |-> life.v,
             satellites |-> satellites.v,
             events |-> generateEventsHistory(s, day),
             lifeforms |-> lifeforms.v,
             resources |-> [minerals |-> minerals.v, gases |-> atmosphere.v,
                            water |-> water.v, energy |-> energy.v],
             evolution |-> [evolutionPoints |-> calculateEvolutionPoints(day),
                            nextStageProgress |-> calculateStageProgress(day, stage),
                            stageRequirements |->
                                STAGE_REQUIREMENTS[IF nextStage = Null THEN stage
                                                   ELSE nextStage]]],
         rng |-> baseRadius.rng]

---------------------------------------------------------------------------
(* The stream each facet of a snapshot draws from *)

GeneratorFacets == {"radius", "dayAttributes", "satellites", "lifeforms", "resources", "events"}
SceneFacets == {"terrain", "biome"}
Facets == GeneratorFacets \cup SceneFacets

\* generatePlanetData hands the one dayRng to every calculate*/generate* call
\* except calculateRadius (this.rng) and generateEventsHistory (a stream per day)
GeneratorStreams(s, day) ==
    [f \in GeneratorFacets |->
        CASE f = "radius" -> s
          [] f = "events" -> EventsKey(s, day)
          [] OTHER -> DayKey(s, day)]

\* LittlePlanetScene: worldRng and rng
SceneStreams(userSeed, day) ==
    [f \in SceneFacets |->
        IF f = "biome" THEN userSeed \o WorldTag ELSE userSeed \o Dash \o NumStr(day)]

---------------------------------------------------------------------------
(* Biome index: PlanetScreen, Planet2D, SimpleLittlePlanet / LittlePlanetScene *)

BiomeCount == 6
DefaultSeed == <<100, 101, 102, 97, 117, 108, 116, 45, 115, 101, 101, 100>>  \* "default-seed"

\* PlanetScreen.biomeIndex
ScreenBiomeIndex(userSeed) == Pick(Draw(SeedRandom(userSeed \o WorldTag)).v, 6)

\* Props are records; an omitted prop is a field the record does not have.

\* Planet2D.colorPalette: the index idx (NoIndex when the early return is taken)
Planet2DIndex(props) ==
    LET data == props.planetData
        baseSeed == data.seed
        useed == (IF "userSeed" \in DOMAIN props THEN props.userSeed ELSE baseSeed) \o WorldTag
    IN  IF data = NullData \/ (data.seed = <<>> /\ data.currentDay = 0) THEN NoIndex
        ELSE IF "biomeIndex" \in DOMAIN props THEN Max(0, Min(5, props.biomeIndex))
        ELSE Pick(Draw(SeedRandom(useed)).v, 6)

\* LittlePlanetScene.biome: the index idx; base always carries a biomeIndex
SceneBiomeIndex(userSeed, base) ==
    IF "biomeIndex" \in DOMAIN base
    THEN Max(0, Min(BiomeCount - 1, base.biomeIndex))
    ELSE Pick(Draw(SeedRandom(userSeed \o WorldTag)).v, BiomeCount)

\* SimpleLittlePlanet: the userSeed default, and base.biomeIndex = biomeIndex || 0
SimpleLittlePlanetIndex(props) ==
    SceneBiomeIndex(IF "userSeed" \in DOMAIN props THEN props.userSeed ELSE DefaultSeed,
                    [biomeIndex |-> IF "biomeIndex" \in DOMAIN props /\ props.biomeIndex # 0
                                    THEN props.biomeIndex ELSE 0])

---------------------------------------------------------------------------
(* State machine *)

NoStreams == [f \in Facets |-> NoKey]

\* the application is loaded with a planet of some seed on day 1; nothing is
\* generated, previewed, stored or rendered yet
InitHook ==
    /\ rngParam \in 0..MaxParam
    /\ seed \in Seeds
    /\ currentDay = 1
    /\ genRng = SeedRandom(seed)
    /\ calls = 0
    /\ planetData = NullData
    /\ prevData = NullData
    /\ facetStream = NoStreams
    /\ idx2D = NoIndex
    /\ idx3D = NoIndex

InitDev ==
    /\ targetDay = 1
    /\ previewData = NullData
    /\ prevPreview = NullData

InitStore ==
    /\ stored = NoItem
    /\ lastSaved = NullData
    /\ loaded = NotLoaded

InitScene ==
    /\ globe = NullData
    /\ prevGlobe = NullData
    /\ placed = NullData
    /\ prevPlaced = NullData

InitRender ==
    /\ worldRng = NoIndex
    /\ sceneRender = NullData
    /\ prevSceneRender = NullData

InitVisit ==
    /\ clock = 0
    /\ lastVisit = NoIndex
    /\ lastCheck = NullData

\* useState(true) for isLoading; no generation has been started
InitAsync ==
    /\ pending = <<>>
    /\ isLoading = TRUE
    /\ lastDone = NullData

Init ==
    /\ InitHook
    /\ InitDev
    /\ InitStore
    /\ noiseSeed = 0
    /\ InitScene
    /\ InitRender
    /\ InitVisit
    /\ InitAsync

\* generator.generatePlanetData(day) followed by setPlanetData, on a generator
\* of seed s whose own stream is in state rng and that has served n calls
Generate(s, rng, n, day) ==
    LET r == generatePlanetData(s, rng, day)
    IN  /\ planetData' = r.data
        /\ prevData' = planetData
        /\ genRng' = r.rng
        /\ calls' = n + 1
        /\ facetStream' = [f \in Facets |->
                              IF f \in GeneratorFacets THEN GeneratorStreams(s, day)[f]
                              ELSE facetStream[f]]

\* the days DevTools offers as buttons
DevToolsDays == {1, 2, 3, 5, 7, 10, 15, 30, 60, 100}

\* triggerEvolution
TriggerEvolution ==
    /\ calls < MaxCalls
    /\ Generate(seed, genRng, calls, currentDay)
    /\ UNCHANGED <<rngParam, seed, currentDay, idx2D, idx3D, devVars, storeVars, sceneVars,
                   renderVars, visitVars, asyncVars>>

\* resetPlanet
ResetPlanet ==
    /\ calls < MaxCalls
    /\ Generate(seed, genRng, calls, 1)
    /\ UNCHANGED <<rngParam, seed, currentDay, idx2D, idx3D, devVars, storeVars, sceneVars,
                   renderVars, visitVars, asyncVars>>

\* the currentDay prop grows by daysPassed (App.handleDailyVisit) and the effect
\* of usePlanetEvolution generates the new day
DailyVisit(daysPassed) ==
    /\ calls < MaxCalls
    /\ currentDay + daysPassed <= MaxDay
    /\ currentDay' = currentDay + daysPassed
    /\ Generate(seed, genRng, calls, currentDay + daysPassed)
    /\ UNCHANGED <<rngParam, seed, idx2D, idx3D, devVars, storeVars, sceneVars,
                   renderVars, visitVars, asyncVars>>

\* the currentDay prop is set to the target day (App.handleSimulateDay) and the
\* effect generates it
SimulateDay(target) ==
    /\ calls < MaxCalls
    /\ target <= MaxDay
    /\ target # currentDay
    /\ currentDay' = target
    /\ Generate(seed, genRng, calls, target)
    /\ UNCHANGED <<rngParam, seed, idx2D, idx3D, devVars, storeVars, sceneVars,
                   renderVars, visitVars, asyncVars>>

\* the page is loaded again: useMemo builds a new PlanetGenerator for the same
\* seed and the effect generates the current day
Reload ==
    /\ planetData # NullData
    /\ Generate(seed, SeedRandom(seed), 0, currentDay)
    /\ idx2D' = NoIndex
    /\ idx3D' = NoIndex
    /\ UNCHANGED <<rngParam, seed, currentDay, devVars, storeVars, sceneVars,
                   renderVars, visitVars, asyncVars>>

\* a planet with another seed is created (App.handleCreatePlanet): day 1, a new
\* generator, and the effect generates day 1
CreatePlanet(s) ==
    /\ s # seed
    /\ seed' = s
    /\ currentDay' = 1
    /\ Generate(s, SeedRandom(s), 0, 1)
    /\ idx2D' = NoIndex
    /\ idx3D' = NoIndex
    /\ UNCHANGED <<rngParam, devVars, storeVars, sceneVars,
                   renderVars, visitVars, asyncVars>>

\* Planet2D renders planetData; withProps: PlanetScreen passes userSeed and
\* biomeIndex, otherwise both are omitted
RenderPlanet2D(withProps) ==
    /\ planetData # NullData
    /\ planetData.seed = seed
    /\ idx2D' = IF withProps
                THEN Planet2DIndex([planetData |-> planetData, userSeed |-> seed,
                                    biomeIndex |-> ScreenBiomeIndex(seed)])
                ELSE Planet2DIndex([planetData |-> planetData])
    /\ UNCHANGED <<rngParam, seed, currentDay, genRng, calls, planetData, prevData,
                   facetStream, idx3D, devVars, storeVars, sceneVars,
                   renderVars, visitVars, asyncVars>>

\* SimpleLittlePlanet renders with userSeed, day and stage of planetData;
\* withProp: PlanetScreen passes biomeIndex, otherwise it is omitted
RenderLittlePlanet(withProp) ==
    /\ planetData # NullData
    /\ planetData.seed = seed
    /\ idx3D' = IF withProp
                THEN SimpleLittlePlanetIndex([userSeed |-> seed,
                                              biomeIndex |-> ScreenBiomeIndex(seed)])
                ELSE SimpleLittlePlanetIndex([userSeed |-> seed])
    /\ facetStream' = [f \in Facets |->
                          IF f \in SceneFacets
                          THEN SceneStreams(seed, planetData.currentDay)[f]
                          ELSE facetStream[f]]
    /\ UNCHANGED <<rngParam, seed, currentDay, genRng, calls, planetData, prevData, idx2D,
                   devVars, storeVars, sceneVars,
                   renderVars, visitVars, asyncVars>>

---------------------------------------------------------------------------
(* components/dev/DevTools.tsx *)

\* parseInt(e.target.value) || 1 for a typed integer
ParseDayInput(typed) == IF typed = 0 THEN 1 ELSE typed

\* generatePreview(day): a new PlanetGenerator(userData.seed) serves one call
generatePreview(day) ==
    /\ previewData' = generatePlanetData(seed, SeedRandom(seed), day).data
    /\ prevPreview' = previewData

\* handleDayChange(day), from a quick button or from the number input
HandleDayChange(day) ==
    /\ targetDay' = day
    /\ generatePreview(day)
    /\ UNCHANGED <<rngParam, hookVars, storeVars, sceneVars,
                   renderVars, visitVars, asyncVars>>

\* a quick button "День {day}"
PressDayButton(day) ==
    /\ day <= MaxDay
    /\ HandleDayChange(day)

\* the number input, which shows targetDay, changes to the typed integer
TypeDay(typed) ==
    /\ typed # targetDay
    /\ HandleDayChange(ParseDayInput(typed))

NextPreview ==
    \/ \E d \in DevToolsDays : PressDayButton(d)
    \/ \E t \in (0 - MaxTyped)..MaxTyped : TypeDay(t)

SpecPreview == Init /\ [][NextPreview]_vars

---------------------------------------------------------------------------
(* utils/planetFactory.ts: createGlobe *)
(*                                                                         *)
(* Numbers.  A unit direction has coordinates in 1/DirDen; a noise value   *)
(* of the [0,1] scale is in 1/NoiseDen; an angle and a mutation's radius   *)
(* are in 1/10000 rad; an influence is in 1/InfOne; noiseF is in 1/1000;   *)
(* a vertex of the mesh is its direction and its distance from the centre  *)
(* along that direction in 1/InfOne (negative beyond the centre).          *)

DirDen == 10000
NoiseDen == 100
InfOne == 3000

\* IcosahedronGeometry(radius, 0): the twelve directions (-1, t, 0), ... normalized,
\* t = (1 + sqrt 5) / 2, and the twenty faces of the non-indexed geometry
IcoVertices ==
    <<<<-5257, 8507, 0>>, <<5257, 8507, 0>>, <<-5257, -8507, 0>>, <<5257, -8507, 0>>,
      <<0, -5257, 8507>>, <<0, 5257, 8507>>, <<0, -5257, -8507>>, <<0, 5257, -8507>>,
      <<8507, 0, -5257>>, <<8507, 0, 5257>>, <<-8507, 0, -5257>>, <<-8507, 0, 5257>>>>

IcoFaces ==
    <<<<1, 12, 6>>, <<1, 6, 2>>, <<1, 2, 8>>, <<1, 8, 11>>, <<1, 11, 12>>,
      <<2, 6, 10>>, <<6, 12, 5>>, <<12, 11, 3>>, <<11, 8, 7>>, <<8, 2, 9>>,
      <<4, 10, 5>>, <<4, 5, 3>>, <<4, 3, 7>>, <<4, 7, 9>>, <<4, 9, 10>>,
      <<5, 10, 6>>, <<3, 5, 12>>, <<7, 3, 11>>, <<9, 7, 8>>, <<10, 9, 2>>>>

FaceCount == Len(IcoFaces)

\* the direction of the vertex j (1..3) of face f
FaceVertex(f, j) == IcoVertices[IcoFaces[f][j]]

Dot(u, v) == u[1] * v[1] + u[2] * v[2] + u[3] * v[3]

Negate(u) == <<0 - u[1], 0 - u[2], 0 - u[3]>>

\* Math.acos(Math.min(1, Math.max(-1, d))) at the dot products of unit
\* directions of the icosahedron and of the zero vector: 1, 1/sqrt 5, 0,
\* -1/sqrt 5, -1
Acos(d) ==
    IF d > 90000000 THEN 0
    ELSE IF d > 20000000 THEN 11071
    ELSE IF d >= 0 - 20000000 THEN 15708
    ELSE IF d >= 0 - 90000000 THEN 20345
    ELSE 31416

\* noise3D(x, y, z) of the coordinates in 1/10000, in 1/50: a pure function of
\* the coordinates and of the permutation table built by createNoise3D()
noise3D(x, y, z) ==
    LET mix == ((x % 4093) * 1031 + (y % 4093) * 257 + (z % 4093) * 67 + noiseSeed * 9973)
                   % RngModulus
    IN  ((RngStep(RngStep(mix)) \div 64) % 101) - 50

\* (noise3D(nv.x, nv.y, nv.z) + 1) / 2 for nv = pos * f + time, pos in 1/10000
RawNoise(pos, f, time) ==
    LET nv == [i \in 1..3 |-> (pos[i] * f) \div 1000 + time * 10000]
    IN  noise3D(nv[1], nv[2], nv[3]) + 50

\* noise > noiseWaterTreshold ? noise : noiseWaterLevel
ThresholdNoise(raw, conf) ==
    IF raw > conf.noiseWaterTreshold THEN raw ELSE conf.noiseWaterLevel

\* new Color(hex): sRGB components
Color(hex) ==
    CASE hex = "#417B2B" -> <<65, 123, 43>>
      [] hex = "#2080D0" -> <<32, 128, 208>>
      [] hex = "#C2B280" -> <<194, 178, 128>>
      [] hex = "#1D74C9" -> <<29, 116, 201>>
      [] hex = "#E25822" -> <<226, 88, 34>>
      [] hex = "#4A4A4A" -> <<74, 74, 74>>

lavaCol == Color("#E25822")
ashCol == Color("#4A4A4A")

\* normalize() of the point at the signed distance mag along the direction dir
Normalized(dir, mag) ==
    IF mag > 0 THEN dir ELSE IF mag < 0 THEN Negate(dir) ELSE <<0, 0, 0>>

\* Math.max(0, 1 - angle / Math.max(0.0001, m.radius)) for the unit vector u
Influence(u, m) ==
    LET angle == Acos(Dot(u, IcoVertices[m.center]))
        r == Max(1, m.radius)
    IN  Max(0, ((r - angle) * InfOne) \div r)

ExtraShiftMutant(u, muts) ==
    LET Sum[k \in 0..Len(muts)] ==
            IF k = 0 THEN 0
            ELSE LET m == muts[k]
                     inf == Influence(u, m)
                 IN  IF inf <= 0 THEN Sum[k - 1]
                     ELSE Sum[k - 1] + m.strength * inf
    IN  Sum[Len(muts)]

\* extraOut - extraIn of the displacement loop, for the unit vector u
ExtraShift(u, muts) ==
    LET Sum[k \in 0..Len(muts)] ==
            IF k = 0 THEN 0
            ELSE LET m == muts[k]
                     inf == Influence(u, m)
                 IN  IF inf <= 0 THEN Sum[k - 1]
                     ELSE IF m.type = "volcanic" THEN Sum[k - 1] + m.strength * inf
                     ELSE Sum[k - 1] - m.strength * inf
    IN  Sum[Len(muts)]

\* the position written for the vertex of direction dir: displacement by the
\* thresholded noise, then by the mutations
DisplacedVertex(dir, a) ==
    LET raw == RawNoise([i \in 1..3 |-> dir[i] * a.radius], a.noiseConf.noiseF, a.timeOffset)
        n == ThresholdNoise(raw, a.noiseConf)
        mag == a.radius * InfOne + n * a.noiseConf.noiseD * (InfOne \div NoiseDen)
    IN  mag + ExtraShift(Normalized(dir, mag), a.mutations)

\* avgVolcano / avgMeteor of face f: the sum over the three written vertices and
\* the mutations of the type of inf / 3
AvgInfluence(type, f, a) ==
    LET Of(j) == Normalized(FaceVertex(f, j), DisplacedVertex(FaceVertex(f, j), a))
        Sum[k \in 0..Len(a.mutations)] ==
            IF k = 0 THEN 0
            ELSE IF a.mutations[k].type # type THEN Sum[k - 1]
            ELSE Sum[k - 1] + Influence(Of(1), a.mutations[k]) \div 3
                            + Influence(Of(2), a.mutations[k]) \div 3
                            + Influence(Of(3), a.mutations[k]) \div 3
    IN  Sum[Len(a.mutations)]

\* 0.35 in 1/InfOne
OverrideThreshold == (35 * InfOne) \div 100

isWaterMutant(f, a) ==
    \E j \in 1..3 :
        RawNoise([i \in 1..3 |-> FaceVertex(f, j)[i] * a.radius], a.noiseConf.noiseF,
                 a.timeOffset) <= a.noiseConf.noiseWaterTreshold

\* triRaw[0] <= t && triRaw[1] <= t && triRaw[2] <= t
isWater(f, a) ==
    \A j \in 1..3 :
        RawNoise([i \in 1..3 |-> FaceVertex(f, j)[i] * a.radius], a.noiseConf.noiseF,
                 a.timeOffset) <= a.noiseConf.noiseWaterTreshold

FaceColorMutant(f, a) ==
    IF a.mutations # <<>> /\ AvgInfluence("volcanic", f, a) >= OverrideThreshold THEN lavaCol
    ELSE IF a.mutations # <<>> /\ AvgInfluence("meteor", f, a) >= OverrideThreshold
    THEN ashCol
    ELSE IF isWater(f, a) THEN Color(a.waterColor)
    ELSE Color(a.groundColor)

\* overrideColor ? overrideColor : isWater ? waterCol : groundCol
FaceColor(f, a) ==
    IF a.mutations # <<>> /\ AvgInfluence("volcanic", f, a) > OverrideThreshold THEN lavaCol
    ELSE IF a.mutations # <<>> /\ AvgInfluence("meteor", f, a) > OverrideThreshold
    THEN ashCol
    ELSE IF isWater(f, a) THEN Color(a.waterColor)
    ELSE Color(a.groundColor)

\* createGlobe(radius, detail, groundColor, waterColor, noiseConf, timeOffset,
\* mutations) for detail 0: the position and the color of each of the 3 * 20
\* vertices of the non-indexed geometry
createGlobe(a) ==
    [positions |-> [vi \in 1..(3 * FaceCount) |->
                       LET f == (vi - 1) \div 3 + 1
                           j == ((vi - 1) % 3) + 1
                       IN  [dir |-> IcoFaces[f][j],
                            mag |-> DisplacedVertex(FaceVertex(f, j), a)]],
     colors |-> [vi \in 1..(3 * FaceCount) |-> FaceColor((vi - 1) \div 3 + 1, a)]]

\* createGlobe's vNoise(v, f) for a point v in 1/10000
vNoise(a, v, f) == ThresholdNoise(RawNoise(v, f, a.timeOffset), a.noiseConf)

---------------------------------------------------------------------------
(* utils/planetFactory.ts: getFibonacciSpherePoints; LittlePlanetScene *)

\* cos and sin of k * Math.PI * (3 - Math.sqrt(5)) in 1/1000, for k = 0..8
CosGolden == <<1000, -737, 87, 608, -985, 844, -260, -461, 939>>
SinGolden == <<0, 675, -996, 794, -174, -537, 966, -887, 343>>

\* the point i (0-based) of getFibonacciSpherePoints(samples, radius); randomVal is
\* Math.random() * samples; coordinates in 1/1000
FibonacciPoint(i, samples, radius, randomVal) ==
    LET y == ((2 * i + 1) * 1000) \div samples - 1000
        distance == ISqrt(1000000 - y * y)
        k == (i + randomVal) % samples
    IN  <<((CosGolden[k + 1] * distance) \div 1000) * radius,
          y * radius,
          ((SinGolden[k + 1] * distance) \div 1000) * radius>>

\* LittlePlanetScene on its first render with the stream rng of
\* `${userSeed}-${day}`: planetProps draws the pulse gate and, below 0.15, the
\* pulse; then timeOffset = rng() * 1000 (here its integer part)
SceneRng(userSeed, day) ==
    LET gate == Draw(SeedRandom(DayKey(userSeed, day)))
        pulse == Draw(gate.rng)
        time == Draw(IF gate.v * 100 < 15 * RngRange THEN pulse.rng ELSE gate.rng)
    IN  [timeOffset |-> (time.v * 1000) \div RngRange, rng |-> time.rng]

\* the trees and rocks of LittlePlanetScene for the globe functions of the call
\* createGlobe(a): each placed object is the candidate point and its distance
\* from the centre after dispV, in 1/NoiseDen.  mathRandom in 0..MathRandomDen-1
\* is the value Math.random() returned to getFibonacciSpherePoints.
PlaceTreesAndRocks(a, treeMax, rockMax, rng, mathRandom) ==
    LET max == treeMax + rockMax
        randomVal == (mathRandom * max) \div MathRandomDen
        \* the body of the loop over the candidate points
        Candidate(prev, i) ==
            LET p == FibonacciPoint(i - 1, max, a.radius, randomVal)
                noise == vNoise(a, [c \in 1..3 |-> p[c] * 10], a.noiseConf.noiseF)
                object == [distance |-> a.radius * NoiseDen + noise * a.noiseConf.noiseD,
                           point |-> p]
                r == Draw(prev.rng)
            IN  IF noise = a.noiseConf.noiseWaterLevel
                THEN prev
                ELSE IF r.v * max > rockMax * RngRange /\ Len(prev.trees) < treeMax
                THEN [trees |-> Append(prev.trees, object), rocks |-> prev.rocks,
                      rng |-> r.rng]
                ELSE IF Len(prev.rocks) < rockMax
                THEN [trees |-> prev.trees, rocks |-> Append(prev.rocks, object),
                      rng |-> r.rng]
                ELSE [trees |-> prev.trees, rocks |-> prev.rocks, rng |-> r.rng]
        Loop[i \in 0..max] ==
            IF i = 0 THEN [trees |-> <<>>, rocks |-> <<>>, rng |-> rng]
            ELSE Candidate(Loop[i - 1], i)
        last == Loop[max]
    IN  [trees |-> last.trees, rocks |-> last.rocks]

\* the page is loaded: planetFactory.ts runs createNoise3D(), which fills its
\* permutation table from Math.random
LoadModule(table) ==
    /\ noiseSeed' = table
    /\ globe' = NullData
    /\ prevGlobe' = IF globe = NullData THEN prevGlobe ELSE globe
    /\ UNCHANGED <<rngParam, hookVars, devVars, storeVars, placed, prevPlaced,
                   renderVars, visitVars, asyncVars>>

\* a call createGlobe(...) with the arguments a
CreateGlobe(a) ==
    /\ globe' = [args |-> a, geometry |-> createGlobe(a)]
    /\ prevGlobe' = IF globe = NullData THEN prevGlobe ELSE globe
    /\ UNCHANGED <<rngParam, hookVars, devVars, storeVars, noiseSeed, placed, prevPlaced,
                   renderVars, visitVars, asyncVars>>

\* LittlePlanetScene's memo of trees and rocks runs with the functions of the
\* last globe; planetProps has the globe's radius and noiseConf
PlaceObjects(treeMax, rockMax, mathRandom) ==
    /\ globe # NullData
    /\ placed' = [globe |-> globe.args, day |-> currentDay, userSeed |-> seed,
                  maxTrees |-> treeMax, maxRocks |-> rockMax,
                  objects |-> PlaceTreesAndRocks(globe.args, treeMax, rockMax,
                                                 SceneRng(seed, currentDay).rng, mathRandom)]
    /\ prevPlaced' = placed
    /\ UNCHANGED <<rngParam, hookVars, devVars, storeVars, noiseSeed, globe, prevGlobe,
                   renderVars, visitVars, asyncVars>>

\* SimpleLittlePlanet's default noiseConf
DefaultNoiseConf ==
    [noiseWaterTreshold |-> 40, noiseWaterLevel |-> 20, noiseF |-> 15, noiseD |-> 15]

\* noise configurations handed to createGlobe: the default one, and one with a
\* higher water threshold
NoiseConfs == {DefaultNoiseConf, [DefaultNoiseConf EXCEPT !.noiseWaterTreshold = 60]}

\* mutation lists handed to createGlobe: centres are directions of vertices
MutationLists ==
    {<<>>,
     <<[type |-> "volcanic", radius |-> 20000, center |-> 1, strength |-> 3]>>,
     <<[type |-> "volcanic", radius |-> 11355, center |-> 1, strength |-> 3]>>,
     <<[type |-> "meteor", radius |-> 20000, center |-> 4, strength |-> 2]>>,
     <<[type |-> "volcanic", radius |-> 20000, center |-> 1, strength |-> 3],
       [type |-> "meteor", radius |-> 20000, center |-> 1, strength |-> 2]>>,
     <<[type |-> "meteor", radius |-> 20000, center |-> 4, strength |-> 200]>>}

\* arguments of createGlobe: the forest biome's colors, timeOffset omitted (0)
\* or the scene's
GlobeArgs(conf, withTime, muts) ==
    [radius |-> 100,
     noiseConf |-> conf,
     timeOffset |-> IF withTime THEN SceneRng(seed, currentDay).timeOffset ELSE 0,
     mutations |-> muts,
     waterColor |-> "#2080D0", groundColor |-> "#417B2B", detail |-> 0]

\* the calls made: every noise configuration with and without the scene's
\* time offset, and the default configuration with every mutation list
GlobeInputs ==
    {<<c, t, <<>>>> : c \in NoiseConfs, t \in BOOLEAN}
        \cup {<<DefaultNoiseConf, FALSE, m>> : m \in MutationLists}

InitGlobe ==
    /\ rngParam = 0
    /\ seed = SeedTerra
    /\ currentDay = 1
    /\ genRng = SeedRandom(seed)
    /\ calls = 0
    /\ planetData = NullData
    /\ prevData = NullData
    /\ facetStream = NoStreams
    /\ idx2D = NoIndex
    /\ idx3D = NoIndex
    /\ InitDev
    /\ InitStore
    /\ noiseSeed \in 0..MaxNoiseSeed
    /\ InitScene
    /\ InitRender
    /\ InitVisit
    /\ InitAsync

NextGlobe ==
    \/ \E table \in 0..MaxNoiseSeed : LoadModule(table)
    \/ \E in \in GlobeInputs : CreateGlobe(GlobeArgs(in[1], in[2], in[3]))

SpecGlobe == InitGlobe /\ [][NextGlobe]_vars

\* SimpleLittlePlanet's maxTrees = 600 and maxRocks = 200, in hundreds
maxTrees == 6
maxRocks == 2

InitSceneLoaded ==
    /\ rngParam = 0
    /\ seed = SeedTerra
    /\ currentDay = 1
    /\ genRng = SeedRandom(seed)
    /\ calls = 0
    /\ planetData = NullData
    /\ prevData = NullData
    /\ facetStream = NoStreams
    /\ idx2D = NoIndex
    /\ idx3D = NoIndex
    /\ InitDev
    /\ InitStore
    /\ noiseSeed \in 0..MaxNoiseSeed
    /\ InitScene
    /\ InitRender
    /\ InitVisit
    /\ InitAsync

NextScene ==
    \/ \E c \in NoiseConfs : CreateGlobe(GlobeArgs(c, TRUE, <<>>))
    \/ \E u \in 0..(MathRandomDen - 1) : PlaceObjects(maxTrees, maxRocks, u)

SpecScene == InitSceneLoaded /\ [][NextScene]_vars

---------------------------------------------------------------------------
(* services/storageService.ts *)

APP_VERSION == "1.0.0"
\* the version of a record written by an earlier build
OldVersion == "0.9.0"

DEFAULT_SETTINGS ==
    [enableSound |-> TRUE, enableAnimations |-> TRUE, theme |-> "space",
     language |-> "ru", notifications |-> TRUE]

\* new Date(): [time |-> t]; the clock is not modelled and reads 0
Now == [time |-> 0]

\* JSON.stringify writes null for NaN; JsonNull is null in the place of a number
JsonNull == 0 - 999999998

JsonNumberMutant(n) == IF n = NaN THEN JsonNull ELSE (n \div 1000) * 1000

JsonNumber(n) == IF n = NaN THEN JsonNull ELSE n

JsonNumbers(rec) == [f \in DOMAIN rec |-> JsonNumber(rec[f])]

\* a Date is written as its ISO string; a string stays a string
JsonDate(d) == IF "time" \in DOMAIN d THEN [isoString |-> d.time] ELSE d

JsonEvent(e) ==
    [id |-> e.id, type |-> e.type, title |-> e.title, description |-> e.description,
     day |-> JsonNumber(e.day), impact |-> JsonNumbers(e.impact),
     duration |-> JsonNumber(e.duration), probability |-> JsonNumber(e.probability)]

\* an array is written element by element
JsonEvents(seq) == [i \in DOMAIN seq |-> JsonEvent(seq[i])]

JsonSatellite(sat) ==
    [id |-> sat.id, name |-> sat.name, size |-> JsonNumber(sat.size),
     distance |-> JsonNumber(sat.distance), color |-> sat.color,
     orbitSpeed |-> JsonNumber(sat.orbitSpeed), type |-> sat.type]

JsonLifeform(lf) ==
    [id |-> lf.id, type |-> lf.type, name |-> lf.name,
     population |-> JsonNumber(lf.population), complexity |-> JsonNumber(lf.complexity),
     dayAppeared |-> JsonNumber(lf.dayAppeared), description |-> lf.description]

JsonPlanetData(d) ==
    IF d = NullData THEN NullData
    ELSE [seed |-> d.seed,
          currentDay |-> JsonNumber(d.currentDay),
          stage |-> d.stage,
          color |-> d.color,
          radius |-> JsonNumber(d.radius),
          temperature |-> JsonNumber(d.temperature),
          atmosphere |-> JsonNumber(d.atmosphere),
          water |-> JsonNumber(d.water),
          life |-> JsonNumber(d.life),
          satellites |-> [i \in DOMAIN d.satellites |-> JsonSatellite(d.satellites[i])],
          events |-> JsonEvents(d.events),
          lifeforms |-> [i \in DOMAIN d.lifeforms |-> JsonLifeform(d.lifeforms[i])],
          resources |-> JsonNumbers(d.resources),
          evolution |->
              [evolutionPoints |-> JsonNumber(d.evolution.evolutionPoints),
               nextStageProgress |-> JsonNumber(d.evolution.nextStageProgress),
               stageRequirements |-> JsonNumbers(d.evolution.stageRequirements)]]

JsonUserData(u) ==
    [seed |-> u.seed, planetName |-> u.planetName, currentDay |-> JsonNumber(u.currentDay),
     lastVisit |-> JsonDate(u.lastVisit), totalVisits |-> JsonNumber(u.totalVisits),
     achievements |-> u.achievements, settings |-> u.settings]

\* JSON.stringify(data): the text, as the JSON value it denotes
JsonStringify(data) ==
    [json |-> [userData |-> JsonUserData(data.userData),
               planetData |-> JsonPlanetData(data.planetData),
               eventHistory |-> JsonEvents(data.eventHistory),
               version |-> data.version]]

\* JSON.parse(text)
JsonParse(text) == text.json

\* StorageService.save(data); fits: localStorage.setItem does not throw
save(data, fits) ==
    /\ stored' = IF fits THEN JsonStringify(data) ELSE stored
    /\ lastSaved' = IF fits THEN data ELSE lastSaved

\* StorageService.migrateData(oldData), without its call of save
migrateData(oldData) ==
    [userData |->
        [seed |-> oldData.userData.seed,
         planetName |-> oldData.userData.planetName,
         currentDay |-> IF oldData.userData.currentDay = 0 THEN 1
                        ELSE oldData.userData.currentDay,
         lastVisit |-> [time |-> oldData.userData.lastVisit.isoString],
         totalVisits |-> IF oldData.userData.totalVisits = 0 THEN 1
                         ELSE oldData.userData.totalVisits,
         achievements |-> oldData.userData.achievements,
         settings |-> oldData.userData.settings],
     planetData |-> oldData.planetData,
     eventHistory |-> oldData.eventHistory,
     version |-> APP_VERSION]

\* StorageService.load(): the record returned (NullData for null) is kept with
\* the record of the save it follows; a record of another version is migrated
\* and saved again
StorageLoad(fits) ==
    LET parsedData == JsonParse(stored)
    IN  /\ IF stored = NoItem
           THEN /\ loaded' = [result |-> NullData, after |-> lastSaved]
                /\ UNCHANGED <<stored, lastSaved>>
           ELSE IF parsedData.version # APP_VERSION
           THEN /\ loaded' = [result |-> migrateData(parsedData), after |-> lastSaved]
                /\ save(migrateData(parsedData), fits)
           ELSE /\ loaded' = [result |-> parsedData, after |-> lastSaved]
                /\ UNCHANGED <<stored, lastSaved>>
        /\ UNCHANGED <<rngParam, hookVars, devVars, sceneVars,
                       renderVars, visitVars, asyncVars>>

\* StorageService.clear()
StorageClear ==
    /\ stored # NoItem
    /\ stored' = NoItem
    /\ lastSaved' = NullData
    /\ loaded' = NotLoaded
    /\ UNCHANGED <<rngParam, hookVars, devVars, sceneVars,
                   renderVars, visitVars, asyncVars>>

\* StorageService.restoreFromBackup of a backup of the stored item whose data
\* carries the given version
RestoreFromBackup(version, fits) ==
    /\ stored # NoItem
    /\ JsonParse(stored).version # version
    /\ save([JsonParse(stored) EXCEPT !.version = version], fits)
    /\ loaded' = IF fits THEN NotLoaded ELSE loaded
    /\ UNCHANGED <<rngParam, hookVars, devVars, sceneVars,
                   renderVars, visitVars, asyncVars>>

PlanetNameOf(s) == IF s = SeedTerra THEN "Terra" ELSE "Io"

\* App.handleCreatePlanet's newUserData, with currentDay as given
UserData(s, day) ==
    [seed |-> s, planetName |-> PlanetNameOf(s), currentDay |-> day, lastVisit |-> Now,
     totalVisits |-> 1, achievements |-> <<"first_visit">>, settings |-> DEFAULT_SETTINGS]

\* App.handleSimulateDay with its save: the record holds the planetData state of
\* the render that ran the handler; then the hook generates the target day
HandleSimulateDay(target, fits) ==
    /\ calls < MaxCalls
    /\ target <= MaxDay
    /\ target # currentDay
    /\ currentDay' = target
    /\ save([userData |-> UserData(seed, target),
             planetData |-> planetData,
             eventHistory |-> IF planetData = NullData THEN <<>> ELSE planetData.events,
             version |-> "1.0.0"], fits)
    /\ loaded' = IF fits THEN NotLoaded ELSE loaded
    /\ Generate(seed, genRng, calls, target)
    /\ UNCHANGED <<rngParam, seed, idx2D, idx3D, devVars, sceneVars,
                   renderVars, visitVars, asyncVars>>

NextStorage ==
    \/ \E d \in DevToolsDays, fits \in BOOLEAN : HandleSimulateDay(d, fits)
    \/ \E fits \in BOOLEAN : StorageLoad(fits)
    \/ StorageClear
    \/ \E v \in {APP_VERSION, OldVersion}, fits \in BOOLEAN : RestoreFromBackup(v, fits)

SpecStorage == Init /\ [][NextStorage]_vars

---------------------------------------------------------------------------

Next ==
    \/ TriggerEvolution
    \/ ResetPlanet
    \/ \E n \in 1..MaxDaysPassed : DailyVisit(n)
    \/ \E d \in DevToolsDays : SimulateDay(d)
    \/ Reload
    \/ \E s \in Seeds : CreatePlanet(s)

Spec == Init /\ [][Next]_vars

NextRender ==
    \/ \E d \in DevToolsDays : SimulateDay(d)
    \/ \E s \in Seeds : CreatePlanet(s)
    \/ \E b \in BOOLEAN : RenderPlanet2D(b)
    \/ \E b \in BOOLEAN : RenderLittlePlanet(b)

SpecRender == Init /\ [][NextRender]_vars

---------------------------------------------------------------------------
(* Properties *)

Both == planetData # NullData /\ prevData # NullData
SameSeed == planetData.seed = prevData.seed

\* the snapshot a new PlanetGenerator(s) returns for day as its first call
FreshSnapshot(s, day) == generatePlanetData(s, SeedRandom(s), day).data

EventsUpTo(events, day) == SelectSeq(events, LAMBDA e : e.day <= day)

\* C1: two calls of generatePlanetData(d) for the same seed, on one generator
\* or on two generators built from the seed, return equal snapshots in every
\* field, the radius included.
C1_SameSnapshotTwice ==
    (Both /\ SameSeed /\ planetData.currentDay = prevData.currentDay)
        => planetData = prevData

\* C2: for one seed and days d1 <= d2, the events of the snapshot of d2 with
\* day <= d1 are exactly the events of the snapshot of d1.
C2_EventsPrefixStable ==
    (Both /\ SameSeed) =>
        /\ prevData.currentDay <= planetData.currentDay =>
              EventsUpTo(planetData.events, prevData.currentDay) = prevData.events
        /\ planetData.currentDay <= prevData.currentDay =>
              EventsUpTo(prevData.events, planetData.currentDay) = planetData.events

C2_Witness ==
    /\ Both /\ SameSeed
    /\ prevData.currentDay < planetData.currentDay
    /\ prevData.events # <<>>
    /\ Len(planetData.events) > Len(prevData.events)

\* C3: the snapshot a generator returns for day d after it has served other
\* calls equals the snapshot a new generator of the same seed returns for d.
C3_SameAsFreshGenerator ==
    planetData # NullData
        => planetData = FreshSnapshot(planetData.seed, planetData.currentDay)

\* C4: for one (seed, day) the facets day attributes, events, satellites,
\* lifeforms, terrain and biome each draw from a stream of their own: no two
\* of them are seeded by the same string.
C4_FacetStreamsDistinct ==
    \A f, g \in {"dayAttributes", "events", "satellites", "lifeforms", "terrain", "biome"} :
        (f # g /\ facetStream[f] # NoKey /\ facetStream[g] # NoKey)
            => facetStream[f] # facetStream[g]

InUnit(x) == 0 <= x /\ x <= One

\* C5: every generated snapshot has atmosphere, water, life, the four
\* resources and nextStageProgress within [0,1], and temperature >= 50.
C5_Bounds ==
    planetData # NullData =>
        /\ InUnit(planetData.atmosphere)
        /\ InUnit(planetData.water)
        /\ InUnit(planetData.life)
        /\ InUnit(planetData.resources.minerals)
        /\ InUnit(planetData.resources.gases)
        /\ InUnit(planetData.resources.water)
        /\ InUnit(planetData.resources.energy)
        /\ InUnit(planetData.evolution.nextStageProgress)
        /\ planetData.temperature >= 50000

C5_Witness ==
    /\ planetData # NullData
    /\ planetData.atmosphere = One
    /\ planetData.water > 0
    /\ planetData.life > 0
    /\ planetData.lifeforms # <<>>

\* C6: for one seed the stage never moves back in the order seed < core <
\* atmosphere < surface < life < mature as the day grows.
C6_StageMonotone ==
    (Both /\ SameSeed) =>
        /\ prevData.currentDay <= planetData.currentDay =>
              StageIndex(prevData.stage) <= StageIndex(planetData.stage)
        /\ planetData.currentDay <= prevData.currentDay =>
              StageIndex(planetData.stage) <= StageIndex(prevData.stage)

C6_Witness ==
    /\ Both /\ SameSeed
    /\ prevData.currentDay < planetData.currentDay
    /\ StageIndex(prevData.stage) < StageIndex(planetData.stage)
    /\ planetData.currentDay > 60

C8_EvolutionPoints ==
    /\ planetData # NullData =>
          LET d == planetData.currentDay
              extra == planetData.evolution.evolutionPoints - 10 * d
          IN  /\ planetData.evolution.evolutionPoints \in Nat
              /\ extra >= 0
              /\ extra * extra <= 25 * d
              /\ (extra + 1) * (extra + 1) > 25 * d
    /\ Both =>
          /\ prevData.currentDay <= planetData.currentDay =>
                prevData.evolution.evolutionPoints <= planetData.evolution.evolutionPoints
          /\ planetData.currentDay <= prevData.currentDay =>
                planetData.evolution.evolutionPoints <= prevData.evolution.evolutionPoints

C8_Witness ==
    /\ Both /\ ~SameSeed
    /\ planetData.currentDay < prevData.currentDay
    /\ planetData.evolution.evolutionPoints < prevData.evolution.evolutionPoints

\* C9: the snapshot of day 1 has stage seed, water 0, life 0, no lifeforms and
\* at most one event; the snapshot of day 60 has stage mature and
\* evolutionPoints 638.
C9_Day1AndDay60 ==
    planetData # NullData =>
        /\ planetData.currentDay = 1 =>
              /\ planetData.stage = "seed"
              /\ planetData.water = 0
              /\ planetData.life = 0
              /\ planetData.lifeforms = <<>>
              /\ Len(planetData.events) <= 1
        /\ planetData.currentDay = 60 =>
              /\ planetData.stage = "mature"
              /\ planetData.evolution.evolutionPoints = 638

C9_Witness ==
    /\ Both /\ SameSeed
    /\ prevData.currentDay = 1
    /\ planetData.currentDay = 60

\* C10: the 2D renderer and the 3D renderer resolve the same biome index in
\* 0..5 for a seed, the one PlanetScreen computes from it, with the biomeIndex
\* prop passed or omitted.
C10_SameBiomeIndex ==
    /\ idx2D # NoIndex => idx2D = ScreenBiomeIndex(seed)
    /\ idx3D # NoIndex => idx3D = ScreenBiomeIndex(seed)
    /\ (idx2D # NoIndex /\ idx3D # NoIndex) => idx2D = idx3D

---------------------------------------------------------------------------
(* Properties of the snapshots DevTools previews *)

BothPreviews == previewData # NullData /\ prevPreview # NullData

Range(seq) == {seq[i] : i \in DOMAIN seq}

\* the first draw of the stream keyed by (seed, events, day)
EventRoll(s, day) == Draw(SeedRandom(EventsKey(s, day))).v

\* the band probability of a day in hundredths: early, middle, late
BandOfDay(day) == IF day <= 7 THEN 10 ELSE IF day <= 30 THEN 15 ELSE 20

\* C15: generatePlanetData(day) with day < 1 returns exactly the snapshot of
\* day 1 (the code raises no error), and no snapshot has currentDay below 1 or
\* evolutionPoints that is not a non-negative integer.
C15_DayBelowOne ==
    previewData # NullData =>
        /\ targetDay < 1 => previewData = FreshSnapshot(seed, 1)
        /\ previewData.currentDay >= 1
        /\ previewData.evolution.evolutionPoints # NaN
        /\ previewData.evolution.evolutionPoints >= 0

\* C17: the probability field of every generated event is the roll that was
\* compared with the band probability of the event's day, so it is below it.
C17_ProbabilityIsRoll ==
    previewData # NullData =>
        \A e \in Range(previewData.events) :
            /\ e.probability = EventRoll(previewData.seed, e.day)
            /\ e.probability * 100 < BandOfDay(e.day) * RngRange

\* C18: for one seed and days d1 < d2, every satellite and every lifeform of
\* the snapshot of d1 is in the snapshot of d2 with the same fields.
C18_SatellitesLifeformsStable ==
    (BothPreviews /\ 1 <= prevPreview.currentDay
                  /\ prevPreview.currentDay < previewData.currentDay) =>
        /\ Range(prevPreview.satellites) \subseteq Range(previewData.satellites)
        /\ Range(prevPreview.lifeforms) \subseteq Range(previewData.lifeforms)

\* C19: a snapshot has an event of day d exactly when the first draw of the
\* stream keyed by (seed, events, d) is below the band probability of d: 0.1
\* for d <= 7, 0.15 for 8 <= d <= 30, 0.2 for d > 30; and no day has two events.
C19_EventIffRollBelowBand ==
    previewData # NullData =>
        /\ \A d \in 1..previewData.currentDay :
              (\E e \in Range(previewData.events) : e.day = d)
                  <=> EventRoll(previewData.seed, d) * 100 < BandOfDay(d) * RngRange
        /\ \A i, j \in DOMAIN previewData.events :
              previewData.events[i].day = previewData.events[j].day => i = j

\* events in the early, the middle and the late band, and a late day whose roll
\* passes the late band only
C19_Witness ==
    /\ previewData # NullData
    /\ \E e \in Range(previewData.events) : e.day <= 7
    /\ \E e \in Range(previewData.events) : 8 <= e.day /\ e.day <= 30
    /\ \E e \in Range(previewData.events) :
          e.day > 30 /\ EventRoll(previewData.seed, e.day) * 100 >= 15 * RngRange
    /\ Len(previewData.events) < previewData.currentDay

\* C20: in the snapshot of day D the events are in strictly increasing order of
\* day, every event's day is in 1..D, the ids are pairwise distinct and every
\* duration is 1, 2 or 3.
C20_EventsOrdered ==
    previewData # NullData =>
        LET events == previewData.events
        IN  /\ \A i, j \in DOMAIN events : i < j => events[i].day < events[j].day
            /\ \A i \in DOMAIN events : events[i].day \in 1..previewData.currentDay
            /\ \A i, j \in DOMAIN events : i # j => events[i].id # events[j].id
            /\ \A i \in DOMAIN events : events[i].duration \in {1, 2, 3}

\* two events of one type on different days, and all three durations
C20_Witness ==
    /\ previewData # NullData
    /\ \E i, j \in DOMAIN previewData.events :
          i < j /\ previewData.events[i].type = previewData.events[j].type
    /\ {e.duration : e \in Range(previewData.events)} = {1, 2, 3}

---------------------------------------------------------------------------
(* Properties of the storage service *)

---------------------------------------------------------------------------
(* Properties of createGlobe and of the object placement *)

GlobeFaces == 1..FaceCount

\* the colors of the three vertices of face f of a geometry
FaceColors(geometry, f) == {geometry.colors[3 * (f - 1) + j] : j \in 1..3}

\* the raw noise values of the three vertices of face f for the arguments a
FaceRaw(a, f) ==
    {RawNoise([i \in 1..3 |-> FaceVertex(f, j)[i] * a.radius], a.noiseConf.noiseF,
              a.timeOffset) : j \in 1..3}

\* C11: two createGlobe calls with the same (radius, detail, groundColor,
\* waterColor, noiseConf, timeOffset, mutations) return the same vertex
\* positions and vertex colors, also when the calls are made in different
\* loads of the application.
C11_SameGlobeTwice ==
    (globe # NullData /\ prevGlobe # NullData /\ globe.args = prevGlobe.args)
        => globe.geometry = prevGlobe.geometry

C13_WaterIffAllRawBelow ==
    globe # NullData =>
        \A f \in GlobeFaces :
            LET a == globe.args
                colors == FaceColors(globe.geometry, f)
            IN  /\ Cardinality(colors) = 1
                /\ a.mutations = <<>> => colors \cap {lavaCol, ashCol} = {}
                /\ colors \cap {lavaCol, ashCol} = {} =>
                      colors = IF \A raw \in FaceRaw(a, f) : raw <= a.noiseConf.noiseWaterTreshold
                               THEN {Color(a.waterColor)}
                               ELSE {Color(a.groundColor)}

\* a globe without mutations with a water face, and a ground face that has a
\* vertex at or below the threshold
C13_Witness ==
    /\ globe # NullData
    /\ globe.args.mutations = <<>>
    /\ \E f \in GlobeFaces : FaceColors(globe.geometry, f) = {Color(globe.args.waterColor)}
    /\ \E f \in GlobeFaces :
          /\ FaceColors(globe.geometry, f) = {Color(globe.args.groundColor)}
          /\ \E raw \in FaceRaw(globe.args, f) : raw <= globe.args.noiseConf.noiseWaterTreshold

\* the color the claim gives face f, with the override threshold reached (atLeast)
\* or exceeded
ClaimedFaceColor(a, f, atLeast) ==
    LET Reached(avg) == IF atLeast THEN avg >= OverrideThreshold ELSE avg > OverrideThreshold
    IN  IF Reached(AvgInfluence("volcanic", f, a)) THEN lavaCol
        ELSE IF Reached(AvgInfluence("meteor", f, a)) THEN ashCol
        ELSE IF \A raw \in FaceRaw(a, f) : raw <= a.noiseConf.noiseWaterTreshold
        THEN Color(a.waterColor)
        ELSE Color(a.groundColor)

---------------------------------------------------------------------------
(* Properties of the satellites, the lifeforms and the stage-gated levels *)

\* the slot a satellite was generated for, read from its id `satellite-${i}`
SlotOf(sat) == CHOOSE i \in 0..2 : sat.id = SatelliteIdTag \o NumStr(i)

\* C21: a snapshot has at most 3 satellites, in increasing slot order with
\* pairwise distinct ids, and the satellite of slot i is there only if
\* day > i * 10 (so at most 1 for day <= 10 and at most 2 for day <= 20).
C21_SatelliteSlots ==
    planetData # NullData =>
        LET sats == planetData.satellites
            day == planetData.currentDay
        IN  /\ Len(sats) <= 3
            /\ \A k \in DOMAIN sats :
                  /\ \E i \in 0..2 : sats[k].id = SatelliteIdTag \o NumStr(i)
                  /\ day > SlotOf(sats[k]) * 10
            /\ \A k, l \in DOMAIN sats :
                  k < l => /\ SlotOf(sats[k]) < SlotOf(sats[l])
                           /\ sats[k].id # sats[l].id
            /\ day <= 10 => Len(sats) <= 1
            /\ day <= 20 => Len(sats) <= 2

\* a snapshot of a day above 10 with two satellites or more, after a snapshot
\* of a day up to 10 that has the satellite of slot 0 only
C21_Witness ==
    /\ planetData # NullData /\ prevData # NullData
    /\ planetData.currentDay > 10
    /\ Len(planetData.satellites) >= 2
    /\ prevData.currentDay <= 10
    /\ Len(prevData.satellites) = 1

\* C22: lifeforms is empty when life = 0 and otherwise has at most
\* min(5, floor(life * 10)) entries; the lifeform accepted at candidate
\* position i has the i-th LifeformType, complexity i + 1 within 1..5,
\* population > 0 and 1 <= dayAppeared <= currentDay.
C22_Lifeforms ==
    planetData # NullData =>
        LET lfs == planetData.lifeforms
            day == planetData.currentDay
        IN  /\ planetData.life = 0 => lfs = <<>>
            /\ Len(lfs) <= Min(5, (planetData.life * 10) \div One)
            /\ \A k \in DOMAIN lfs :
                  \E i \in 0..4 :
                      /\ lfs[k].id = LifeformIdTag \o NumStr(i)
                      /\ lfs[k].type = LifeformTypes[i + 1]
                      /\ lfs[k].complexity = i + 1
                      /\ lfs[k].complexity \in 1..5
                      /\ lfs[k].population > 0
                      /\ 1 <= lfs[k].dayAppeared
                      /\ lfs[k].dayAppeared <= day

\* a snapshot with life whose first lifeform is not the first candidate, and
\* with a lifeform that appeared on an earlier day
C22_Witness ==
    /\ planetData # NullData
    /\ planetData.life > 0
    /\ Len(planetData.lifeforms) >= 2
    /\ planetData.lifeforms[1].id # LifeformIdTag \o NumStr(0)
    /\ \E k \in DOMAIN planetData.lifeforms :
          planetData.lifeforms[k].dayAppeared < planetData.currentDay

\* C23: water = 0 whenever the stage is seed or core (day < 7), and life = 0
\* with no lifeforms whenever the stage is not life or mature (day < 30).
C23_StageGatedLevels ==
    planetData # NullData =>
        LET day == planetData.currentDay
            stage == planetData.stage
        IN  /\ stage \in {"seed", "core"} <=> day < 7
            /\ stage \in {"seed", "core"} => planetData.water = 0
            /\ stage \notin {"life", "mature"} <=> day < 30
            /\ stage \notin {"life", "mature"} =>
                  planetData.life = 0 /\ planetData.lifeforms = <<>>

\* a snapshot of the atmosphere or surface stage with water and without life,
\* after a snapshot of the seed or core stage
C23_Witness ==
    /\ planetData # NullData /\ prevData # NullData
    /\ planetData.stage \in {"atmosphere", "surface"}
    /\ planetData.water > 0
    /\ planetData.life = 0
    /\ prevData.stage \in {"seed", "core"}
    /\ prevData.water = 0

\* C28: for every day >= 30 (stages life and mature) atmosphere is exactly 1,
\* and for every day >= 60 (stage mature) water and life are each 0 or 1: the
\* random perturbation never changes the value there.
C28_SaturatedLevels ==
    planetData # NullData =>
        LET day == planetData.currentDay
        IN  /\ day >= 30 => /\ planetData.stage \in {"life", "mature"}
                            /\ planetData.atmosphere = One
            /\ day >= 60 => /\ planetData.stage = "mature"
                            /\ planetData.water \in {0, One}
                            /\ planetData.life \in {0, One}

\* a mature snapshot whose water and life gates passed, with water 1, life 1
\* and atmosphere 1, reached from an earlier mature snapshot without life
C28_Witness ==
    /\ planetData # NullData /\ prevData # NullData
    /\ planetData.currentDay >= 60
    /\ planetData.life = One
    /\ planetData.atmosphere = One
    /\ planetData.water = One
    /\ prevData.currentDay >= 60
    /\ prevData.life = 0

---------------------------------------------------------------------------
(* Properties of the terrain mutations *)

GlobeVertices == 1..(3 * FaceCount)

\* the distance from the centre the claim gives vertex vi before the mutations:
\* the radius plus the thresholded noise times noiseD
ClaimedNoiseOnly(a, vi) ==
    LET dir == IcoVertices[IcoFaces[(vi - 1) \div 3 + 1][((vi - 1) % 3) + 1]]
        raw == RawNoise([i \in 1..3 |-> dir[i] * a.radius], a.noiseConf.noiseF,
                        a.timeOffset)
        n == IF raw > a.noiseConf.noiseWaterTreshold THEN raw
             ELSE a.noiseConf.noiseWaterLevel
    IN  a.radius * InfOne + n * a.noiseConf.noiseD * (InfOne \div NoiseDen)

\* the angular distance of vertex vi from the center of the mutation m
VertexAngle(vi, m) ==
    Acos(Dot(IcoVertices[IcoFaces[(vi - 1) \div 3 + 1][((vi - 1) % 3) + 1]],
             IcoVertices[m.center]))

\* strength * max(0, 1 - angle / radius) of the mutation m at vertex vi
ClaimedContribution(vi, m) ==
    IF VertexAngle(vi, m) >= m.radius THEN 0
    ELSE m.strength * (((m.radius - VertexAngle(vi, m)) * InfOne) \div m.radius)

\* the sum over the mutations of type of their contributions at vertex vi
RECURSIVE ClaimedSum(_, _, _)
ClaimedSum(vi, muts, type) ==
    IF muts = <<>> THEN 0
    ELSE (IF Head(muts).type = type THEN ClaimedContribution(vi, Head(muts)) ELSE 0)
             + ClaimedSum(vi, Tail(muts), type)

\* C24: the extra radial displacement of a vertex is the sum over volcanic
\* mutations of strength * influence minus the sum over meteor mutations of
\* strength * influence, influence = max(0, 1 - angle / radius); a mutation
\* whose center is at an angle >= its radius from the vertex contributes
\* nothing, and without mutations every vertex has its noise-only displacement.
C24_MutationDisplacement ==
    globe # NullData =>
        \A vi \in GlobeVertices :
            LET a == globe.args
                shift == globe.geometry.positions[vi].mag - ClaimedNoiseOnly(a, vi)
            IN  /\ shift = ClaimedSum(vi, a.mutations, "volcanic")
                             - ClaimedSum(vi, a.mutations, "meteor")
                /\ a.mutations = <<>> => shift = 0
                /\ (\A k \in DOMAIN a.mutations :
                        VertexAngle(vi, a.mutations[k]) >= a.mutations[k].radius)
                       => shift = 0

\* a globe with a volcanic and a meteor mutation on which one vertex is raised by
\* the difference of the two contributions and another, outside both radii,
\* is not moved
C24_Witness ==
    /\ globe # NullData
    /\ Len(globe.args.mutations) = 2
    /\ \E vi \in GlobeVertices :
          /\ ClaimedContribution(vi, globe.args.mutations[1]) > 0
          /\ ClaimedContribution(vi, globe.args.mutations[2]) > 0
          /\ globe.geometry.positions[vi].mag > ClaimedNoiseOnly(globe.args, vi)
    /\ \E vi \in GlobeVertices :
          /\ VertexAngle(vi, globe.args.mutations[1]) >= globe.args.mutations[1].radius
          /\ globe.geometry.positions[vi].mag = ClaimedNoiseOnly(globe.args, vi)

---------------------------------------------------------------------------
(* components/planet/PlanetInfo.tsx: the memos of LittlePlanetScene.       *)
(* An angle is in 1/10000 rad; cos theta and a strength are in 1/RngRange; *)
(* arcAmp is in 1/(100 * RngRange), tectonicIntensity in 1/(10 * RngRange) *)

SceneEventTag == <<45, 101, 118, 101, 110, 116, 45>>      \* "-event-"

TwoPi == 62832

MaxRecomputations == 2

\* seedrandom(`${userSeed}-event-${e.id}`)
EventRng(userSeed, e) == SeedRandom(userSeed \o SceneEventTag \o e.id)

\* the direction drawn for the event: theta = acos(1 - 2 * erng()),
\* phi = 2 * PI * erng(); the centre is (sin theta cos phi, cos theta, sin theta sin phi)
EventCenter(theta, phi) ==
    [phi |-> (TwoPi * phi.v) \div RngRange, cosTheta |-> RngRange - 2 * theta.v]

EventMutationsMutant(userSeed, e) ==
    LET theta == Draw(EventRng(userSeed, e))
        phi == Draw(theta.rng)
        radius == Draw(phi.rng)
        strength == Draw(radius.rng)
        center == EventCenter(theta, phi)
    IN  <<[type |-> "volcanic", radius |-> 2200 + (radius.v * 2500) \div RngRange,
           center |-> center, strength |-> 2 * RngRange + strength.v * 4]>>

\* the mutations pushed for the event e: one for a volcanic event, one for a
\* meteor, none for any other type
EventMutations(userSeed, e) ==
    LET theta == Draw(EventRng(userSeed, e))
        phi == Draw(theta.rng)
        radius == Draw(phi.rng)
        strength == Draw(radius.rng)
        center == EventCenter(theta, phi)
    IN  IF e.type = "volcanic"
        THEN <<[type |-> "volcanic", radius |-> 2200 + (radius.v * 2500) \div RngRange,
                center |-> center, strength |-> 2 * RngRange + strength.v * 4]>>
        ELSE IF e.type = "meteor"
        THEN <<[type |-> "meteor", radius |-> 1200 + (radius.v * 2000) \div RngRange,
                center |-> center, strength |-> RngRange + strength.v * 2]>>
        ELSE <<>>

\* the mutations memo: events.filter(e => e.day <= day), then the loop
RECURSIVE SceneMutations(_, _, _)
SceneMutations(userSeed, day, events) ==
    IF events = <<>> THEN <<>>
    ELSE LET e == Head(events)
         IN  (IF e.day <= day THEN EventMutations(userSeed, e) ELSE <<>>)
                 \o SceneMutations(userSeed, day, Tail(events))

arcs == <<"desert", "terraform", "oscillate", "glacier", "stable", "tectonic">>

\* planetProps: the climate trajectory drawn from the stream worldRng in
\* state rng, and the stream afterwards
Climate(rng) ==
    LET arc == Draw(rng)
        arcAmp == Draw(arc.rng)
        arcPhase == Draw(arcAmp.rng)
        tectonicIntensity == Draw(arcPhase.rng)
    IN  [v |-> [arc |-> arcs[Pick(arc.v, Len(arcs)) + 1],
                arcAmp |-> 18 * RngRange + 15 * arcAmp.v,
                arcPhase |-> (TwoPi * arcPhase.v) \div RngRange,
                tectonicIntensity |-> 6 * RngRange + 8 * tectonicIntensity.v],
         rng |-> tectonicIntensity.rng]

\* LittlePlanetScene renders with userSeed, day and events of planetData.
\* worldRng is created on the mount and when userSeed changes; the biome memo
\* runs when worldRng or base.biomeIndex changes and draws from worldRng when
\* biomeIndex is omitted (withProp false); base is a new object on every
\* render, so planetProps is recomputed on every render
RenderScene(withProp) ==
    /\ planetData # NullData
    /\ planetData.seed = seed
    /\ LET mount == worldRng = NoIndex \/ sceneRender.userSeed # seed
           biomeRuns == mount \/ sceneRender.withProp # withProp
           start == IF mount THEN SeedRandom(seed \o WorldTag) ELSE worldRng
           biome == IF biomeRuns /\ ~withProp THEN Draw(start).rng ELSE start
           climate == Climate(biome)
           n == IF mount THEN 0 ELSE sceneRender.recomputations + 1
       IN  /\ n <= MaxRecomputations
           /\ worldRng' = climate.rng
           /\ sceneRender' = [day |-> planetData.currentDay,
                              events |-> planetData.events,
                              userSeed |-> seed,
                              withProp |-> withProp,
                              mutations |-> SceneMutations(seed, planetData.currentDay,
                                                           planetData.events),
                              climate |-> climate.v,
                              recomputations |-> n]
           /\ prevSceneRender' = IF sceneRender = NullData THEN prevSceneRender
                                 ELSE sceneRender
    /\ idx3D' = IF withProp
                THEN SimpleLittlePlanetIndex([userSeed |-> seed,
                                              biomeIndex |-> ScreenBiomeIndex(seed)])
                ELSE SimpleLittlePlanetIndex([userSeed |-> seed])
    /\ facetStream' = [f \in Facets |->
                          IF f \in SceneFacets
                          THEN SceneStreams(seed, planetData.currentDay)[f]
                          ELSE facetStream[f]]
    /\ UNCHANGED <<rngParam, seed, currentDay, genRng, calls, planetData, prevData, idx2D,
                   devVars, storeVars, sceneVars, visitVars, asyncVars>>

\* PlanetScreen switches to the 2D view: the scene is unmounted
UnmountScene ==
    /\ worldRng # NoIndex
    /\ worldRng' = NoIndex
    /\ UNCHANGED <<rngParam, hookVars, devVars, storeVars, sceneVars, sceneRender,
                   prevSceneRender, visitVars, asyncVars>>

\* the DevTools buttons pressed
TerrainDays == {1, 15, 30, 60}

NextTerrain ==
    \/ \E d \in TerrainDays : SimulateDay(d)
    \/ \E b \in BOOLEAN : RenderScene(b)
    \/ UnmountScene

SpecTerrain == Init /\ [][NextTerrain]_vars

---------------------------------------------------------------------------
(* Properties of the scene's memos *)

\* the events of a render that the claim gives a mutation to
MutatingEvents(r) ==
    LET Applies(e) == e.day <= r.day /\ e.type \in {"volcanic", "meteor"}
    IN  SelectSeq(r.events, Applies)

IsPrefix(s, t) == Len(s) <= Len(t) /\ SubSeq(t, 1, Len(s)) = s

\* C25: the mutation list rendered for (seed, day) has exactly one mutation for
\* each event with event.day <= day of type volcanic or meteor, in event order,
\* and none for any other type; a mutation's center, radius and strength depend
\* only on the seed and the event id, so of two renders of one seed the list of
\* the earlier day is a prefix of the list of the later day
C25_MutationList ==
    sceneRender # NullData =>
        LET ev == MutatingEvents(sceneRender)
            muts == sceneRender.mutations
        IN  /\ Len(muts) = Len(ev)
            /\ \A i \in 1..Len(ev) :
                  /\ muts[i].type = ev[i].type
                  /\ <<muts[i]>> = EventMutations(sceneRender.userSeed,
                                                  [id |-> ev[i].id, type |-> ev[i].type])
            /\ prevSceneRender # NullData /\ prevSceneRender.userSeed = sceneRender.userSeed =>
                  LET pev == MutatingEvents(prevSceneRender)
                      pmuts == prevSceneRender.mutations
                  IN  /\ \A i \in 1..Len(ev), j \in 1..Len(pev) :
                            ev[i].id = pev[j].id => muts[i] = pmuts[j]
                      /\ prevSceneRender.day < sceneRender.day => IsPrefix(pmuts, muts)
                      /\ sceneRender.day < prevSceneRender.day => IsPrefix(muts, pmuts)

\* two renders of one seed, the later day adding mutations to those of the
\* earlier day, with events of other types in between
C25_Witness ==
    /\ sceneRender # NullData
    /\ prevSceneRender # NullData
    /\ prevSceneRender.userSeed = sceneRender.userSeed
    /\ prevSceneRender.day < sceneRender.day
    /\ Len(prevSceneRender.mutations) >= 1
    /\ Len(sceneRender.mutations) > Len(prevSceneRender.mutations)
    /\ Len(sceneRender.events) > Len(sceneRender.mutations)
    /\ \E i, j \in 1..Len(sceneRender.mutations) :
          /\ sceneRender.mutations[i].type = "volcanic"
          /\ sceneRender.mutations[j].type = "meteor"

\* C26: for a fixed seed the climate trajectory (arc, amplitude, phase and
\* tectonic intensity) is the same on every recomputation of planetProps,
\* whatever the day and however many recomputations came before
C26_ClimateFixedBySeed ==
    /\ sceneRender # NullData
    /\ prevSceneRender # NullData
    /\ prevSceneRender.userSeed = sceneRender.userSeed
    => sceneRender.climate = prevSceneRender.climate

---------------------------------------------------------------------------
(* hooks/useDailyCheck.ts.  A Date is the number of hours since a local    *)
(* midnight; every local day has 24 hours.                                 *)

HoursPerDay == 24

MaxClock == 50

\* new Date(d.getFullYear(), d.getMonth(), d.getDate()).getTime()
Midnight(date) == (date \div HoursPerDay) * HoursPerDay

\* checkNewDay at the time now with the state lastVisit
checkNewDay(now, last) ==
    LET today == Midnight(now)
        lastVisitDay == Midnight(last)
        diffTime == today - lastVisitDay
        diffDays == diffTime \div HoursPerDay
        hoursPassed == diffTime
        isRealNewDay == diffDays > 0 /\ hoursPassed >= 4
    IN  IF last = NoIndex THEN [isNew |-> FALSE, daysPassed |-> 0]
        ELSE [isNew |-> isRealNewDay, daysPassed |-> Max(0, diffDays)]

\* the result of checkNewDay is stored in isNewDay and daysPassed
StoreCheck(now, last) ==
    lastCheck' = [lastVisit |-> last,
                  daysPassed |-> checkNewDay(now, last).daysPassed,
                  now |-> now,
                  isNew |-> checkNewDay(now, last).isNew]

\* an hour passes
Tick ==
    /\ clock < MaxClock
    /\ clock' = clock + 1
    /\ UNCHANGED <<rngParam, hookVars, devVars, storeVars, sceneVars, renderVars,
                   lastVisit, lastCheck, asyncVars>>

\* the effect after the mount and the callback of setInterval
CheckNewDay ==
    /\ StoreCheck(clock, lastVisit)
    /\ UNCHANGED <<rngParam, hookVars, devVars, storeVars, sceneVars, renderVars,
                   clock, lastVisit, asyncVars>>

\* updateLastVisit sets lastVisit to now; the effect on lastVisit then checks again
UpdateLastVisit ==
    /\ lastVisit' = clock
    /\ StoreCheck(clock, clock)
    /\ UNCHANGED <<rngParam, hookVars, devVars, storeVars, sceneVars, renderVars,
                   clock, asyncVars>>

NextVisit ==
    \/ Tick
    \/ CheckNewDay
    \/ UpdateLastVisit

SpecVisit == Init /\ [][NextVisit]_vars

\* C27: checkNewDay reports a new day only when the calendar date has advanced
\* and at least 4 hours of real time have passed since the last visit
C27_NewDayNeedsFourHours ==
    lastCheck # NullData /\ lastCheck.isNew =>
        /\ Midnight(lastCheck.now) > Midnight(lastCheck.lastVisit)
        /\ lastCheck.now - lastCheck.lastVisit >= 4

---------------------------------------------------------------------------
(* hooks/usePlanetEvolution.ts with its timers.  generatePlanetData(day)   *)
(* sets isLoading and starts a timer of 100 ms; the timers fire in the     *)
(* order they were started.  A pending generation is its caller, its day   *)
(* and, for the effect's, the isCancelled flag of the effect run.          *)

MaxRequests == 5

\* generatePlanetData(day) up to its await, called by src
StartGeneration(queue, src, day) ==
    Append(queue, [day |-> day, src |-> src, cancelled |-> FALSE])

\* the cleanup of the effect's last run sets its isCancelled
Cleanup(queue) ==
    [i \in 1..Len(queue) |->
        IF queue[i].src = "effect" THEN [queue[i] EXCEPT !.cancelled = TRUE] ELSE queue[i]]

\* the state after the mount: the effect has started the generation of day 1
InitMounted ==
    /\ InitHook
    /\ InitDev
    /\ InitStore
    /\ noiseSeed = 0
    /\ InitScene
    /\ InitRender
    /\ InitVisit
    /\ pending = StartGeneration(<<>>, "effect", currentDay)
    /\ isLoading = TRUE
    /\ lastDone = NullData

\* App.handleSimulateDay(targetDay): setUserData, the save, then
\* triggerEvolution() of the render that ran the handler, which generates that
\* render's currentDay; the next render has currentDay = targetDay and, when it
\* differs, runs the effect's cleanup and the effect
AsyncSimulateDay(target, fits) ==
    /\ calls + Len(pending) + 2 <= MaxRequests
    /\ target <= MaxDay
    /\ save([userData |-> UserData(seed, target),
             planetData |-> planetData,
             eventHistory |-> IF planetData = NullData THEN <<>> ELSE planetData.events,
             version |-> "1.0.0"], fits)
    /\ loaded' = IF fits THEN NotLoaded ELSE loaded
    /\ currentDay' = target
    /\ LET triggered == StartGeneration(pending, "trigger", currentDay)
       IN  IF target = currentDay
           THEN /\ pending' = triggered
                /\ isLoading' = TRUE
                /\ UNCHANGED <<planetData, prevData>>
           ELSE IF target < 1
           THEN /\ pending' = Cleanup(triggered)
                /\ isLoading' = FALSE
                /\ planetData' = NullData
                /\ prevData' = planetData
           ELSE /\ pending' = StartGeneration(Cleanup(triggered), "effect", target)
                /\ isLoading' = TRUE
                /\ UNCHANGED <<planetData, prevData>>
    /\ UNCHANGED <<rngParam, seed, genRng, calls, facetStream, idx2D, idx3D, devVars,
                   sceneVars, renderVars, visitVars, lastDone>>

\* the oldest timer fires: the generator produces the snapshot, finally sets
\* isLoading to false, and the caller sets planetData unless it is a cancelled
\* run of the effect
TimerFires ==
    /\ pending # <<>>
    /\ LET req == Head(pending)
           r == generatePlanetData(seed, genRng, req.day)
           sets == req.src # "effect" \/ ~req.cancelled
       IN  /\ pending' = Tail(pending)
           /\ isLoading' = FALSE
           /\ genRng' = r.rng
           /\ calls' = calls + 1
           /\ facetStream' = [f \in Facets |->
                                 IF f \in GeneratorFacets
                                 THEN GeneratorStreams(seed, req.day)[f]
                                 ELSE facetStream[f]]
           /\ planetData' = IF sets THEN r.data ELSE planetData
           /\ prevData' = IF sets THEN planetData ELSE prevData
           /\ lastDone' = [day |-> req.day, src |-> req.src, cancelled |-> req.cancelled,
                           setsPlanetData |-> sets]
    /\ UNCHANGED <<rngParam, seed, currentDay, idx2D, idx3D, devVars, storeVars,
                   sceneVars, renderVars, visitVars>>

\* the days given to handleSimulateDay: buttons and the typed -1 and 0
AsyncDays == {ParseDayInput(0 - 1), ParseDayInput(0), 7, 15}

NextAsync ==
    \/ \E d \in AsyncDays, fits \in BOOLEAN : AsyncSimulateDay(d, fits)
    \/ TimerFires

SpecAsync == InitMounted /\ [][NextAsync]_vars

EffectPending == \E i \in 1..Len(pending) : pending[i].src = "effect"

\* C29: a generation started by the effect never sets planetData after the
\* effect's cleanup ran; consequently, once all generations started by the
\* effect have completed, planetData.currentDay is the latest currentDay
C29_EffectResultIsLatest ==
    /\ lastDone # NullData /\ lastDone.src = "effect" /\ lastDone.cancelled
          => ~lastDone.setsPlanetData
    /\ ~EffectPending /\ planetData # NullData => planetData.currentDay = currentDay

\* C30: isLoading is true whenever a generation request is pending
C30_LoadingWhilePending == pending # <<>> => isLoading

=============================================================================
